---- MODULE Spec2Model ----
(***************************************************************************)
(* Model of the cloud-runtimes Python SDK: the CloudRuntimesClient facade  *)
(* (cloud_runtimes/client.py), the error family                             *)
(* (cloud_runtimes/exceptions.py), the capability interfaces and their     *)
(* blocking *_sync wrappers (cloud_runtimes/core/*.py), the contract types  *)
(* (cloud_runtimes/types), accessor reads by concurrent threads, the        *)
(* recording provider of the tests (tests/core) and the client as an async  *)
(* context manager.                                                         *)
(*                                                                         *)
(* Python values are tagged records, so that None, strings, numbers,       *)
(* dicts and dataclass instances can be compared with one another.          *)
(***************************************************************************)
EXTENDS FiniteSets, Integers, Sequences, TLC

VARIABLES
  ctorArgs,     \* the arguments CloudRuntimesClient(...) was called with
  endpoint,     \* client.endpoint
  timeout,      \* client.timeout
  config,       \* client.config
  slots,        \* the private provider attributes client._invocation .. client._encryption
  lastBound,    \* history: per attribute, the value most recently assigned to it
  closed,       \* history: whether close() has been called on the client
  obs,          \* the last facade operation and what its caller observed
  call_count,   \* how many invocations the recording provider has captured
  programmed,   \* how the provider's suspending operations end (return_value / side_effect)
  loopRunning,  \* whether the calling thread is inside a running event loop
  res,          \* the last capability call and what its caller observed
  lookup,       \* the last attribute looked up on a provider and what the lookup gave
  raised,       \* the last exception constructed, with the arguments it was given
  held,         \* the contract value (dataclass instance) a caller keeps
  made,         \* the last operation on a contract value and what it gave
  bulk,         \* the last bulk call and what the provider answered
  sealed,       \* history: whether the binding phase is over (no slot is written any more)
  reads,        \* per reader thread: how far its accessor read has got and what it gave
  inst,         \* the last instantiation of a capability class and what it gave
  cm            \* the `async with client` statement: where it is and what its caller observed

facadeVars == <<ctorArgs, endpoint, timeout, config, slots, lastBound, closed, obs>>

bridgeVars == <<call_count, programmed, loopRunning, res>>

ifaceVars == <<lookup>>

contractVars == <<raised, held, made, bulk>>

runVars == <<sealed, reads, inst, cm>>

vars == <<facadeVars, bridgeVars, ifaceVars, contractVars, runVars>>

-----------------------------------------------------------------------------
(* Python values *)

NoneVal == [t |-> "None"]

Str(s) == [t |-> "str", v |-> s]

Num(n) == [t |-> "float", v |-> n]

Dict(f) == [t |-> "dict", v |-> f]

Provider(id) == [t |-> "provider", id |-> id]

EmptyMap == [k \in {} |-> ""]

\* bool(x): None, "", 0 and {} are falsy, every other value is truthy
Truthy(x) ==
  CASE x.t = "None" -> FALSE
    [] x.t = "str" -> x.v # ""
    [] x.t = "float" -> x.v # 0
    [] x.t = "dict" -> DOMAIN x.v # {}
    [] OTHER -> TRUE

\* the expression `a or b`
PyOr(a, b) == IF Truthy(a) THEN a ELSE b

\* how a call ends: it returns a value or raises an exception
Return(v) == [k |-> "return", v |-> v]

Raise(e) == [k |-> "raise", v |-> e]

-----------------------------------------------------------------------------
(* cloud_runtimes/exceptions.py and the builtin exception classes *)

ERROR_CODE_NETWORK == "CR_NETWORK_ERROR"

ERROR_CODE_AUTH == "CR_AUTH_ERROR"

ERROR_CODE_PARAM == "CR_PARAM_ERROR"

ERROR_CODE_RESOURCE == "CR_RESOURCE_ERROR"

ERROR_CODE_SYSTEM == "CR_SYSTEM_ERROR"

ERROR_CODE_TIMEOUT == "CR_TIMEOUT_ERROR"

ERROR_CODE_NOT_FOUND == "CR_NOT_FOUND_ERROR"

ERROR_CODE_CONFLICT == "CR_CONFLICT_ERROR"

SubclassCodeNotFoundAsResource ==
  [ NetworkException |-> ERROR_CODE_NETWORK,
    AuthenticationException |-> ERROR_CODE_AUTH,
    ParameterException |-> ERROR_CODE_PARAM,
    ResourceException |-> ERROR_CODE_RESOURCE,
    SystemException |-> ERROR_CODE_SYSTEM,
    TimeoutException |-> ERROR_CODE_TIMEOUT,
    NotFoundException |-> ERROR_CODE_RESOURCE,
    ConflictException |-> ERROR_CODE_CONFLICT ]

\* the code each subclass passes to CloudRuntimesException.__init__
SubclassCode ==
  [ NetworkException |-> ERROR_CODE_NETWORK,
    AuthenticationException |-> ERROR_CODE_AUTH,
    ParameterException |-> ERROR_CODE_PARAM,
    ResourceException |-> ERROR_CODE_RESOURCE,
    SystemException |-> ERROR_CODE_SYSTEM,
    TimeoutException |-> ERROR_CODE_TIMEOUT,
    NotFoundException |-> ERROR_CODE_NOT_FOUND,
    ConflictException |-> ERROR_CODE_CONFLICT ]

ErrorCodes == {SubclassCode[c] : c \in DOMAIN SubclassCode}

\* the direct base class of every exception class of the model
BaseClass ==
  [ c \in DOMAIN SubclassCode |-> "CloudRuntimesException" ] @@
  [ CloudRuntimesException |-> "Exception",
    NotImplementedError |-> "RuntimeError",
    AttributeError |-> "Exception",
    TypeError |-> "Exception",
    RuntimeError |-> "Exception",
    Exception |-> "BaseException",
    BaseException |-> "object" ]

RECURSIVE Ancestors(_)
\* the classes of cls's method resolution order, cls included
Ancestors(cls) ==
  IF cls = "object" THEN {"object"} ELSE {cls} \cup Ancestors(BaseClass[cls])

\* isinstance(e, cls)
IsInstance(e, cls) == e.t = "exc" /\ cls \in Ancestors(e.cls)

CloudRuntimesExceptionKeepsNone(cls, code, message, details) ==
  [ t |-> "exc", cls |-> cls, code |-> code, message |-> message,
    details |-> details,
    text |-> "CloudRuntimes error [" \o code \o "]: " \o message ]

\* CloudRuntimesException.__init__(code, message, details) on an instance of
\* class cls; text is the argument given to Exception.__init__, i.e. str(e)
CloudRuntimesException(cls, code, message, details) ==
  [ t |-> "exc", cls |-> cls, code |-> code, message |-> message,
    details |-> PyOr(details, Dict(EmptyMap)),
    text |-> "CloudRuntimes error [" \o code \o "]: " \o message ]

\* a subclass's __init__(message, details)
SubclassException(cls, message, details) ==
  CloudRuntimesException(cls, SubclassCode[cls], message, details)

\* a builtin exception: it has a message and no code attribute
BuiltinException(cls, message) == [t |-> "exc", cls |-> cls, message |-> message]

-----------------------------------------------------------------------------
(* cloud_runtimes/client.py: CloudRuntimesClient *)

\* the 16 capability accessors (properties) of the client
Capabilities ==
  { "invocation", "state", "configuration", "pubsub", "secrets", "binding",
    "database", "file", "lock", "telemetry",
    "redis", "sql", "s3",
    "email", "sms", "encryption" }

SlotOfSwapped ==
  [ invocation |-> "_invocation", state |-> "_state",
    configuration |-> "_configuration", pubsub |-> "_pubsub",
    secrets |-> "_secrets", binding |-> "_binding",
    database |-> "_database", file |-> "_file", lock |-> "_lock",
    telemetry |-> "_telemetry", redis |-> "_redis", sql |-> "_sql",
    s3 |-> "_s3", email |-> "_sms", sms |-> "_email",
    encryption |-> "_encryption" ]

\* the private attribute each accessor reads
SlotOf ==
  [ invocation |-> "_invocation", state |-> "_state",
    configuration |-> "_configuration", pubsub |-> "_pubsub",
    secrets |-> "_secrets", binding |-> "_binding",
    database |-> "_database", file |-> "_file", lock |-> "_lock",
    telemetry |-> "_telemetry", redis |-> "_redis", sql |-> "_sql",
    s3 |-> "_s3", email |-> "_email", sms |-> "_sms",
    encryption |-> "_encryption" ]

SlotNames == {SlotOf[c] : c \in Capabilities}

\* the name each accessor puts in its NotImplementedError message
RuntimeLabel ==
  [ invocation |-> "Invocation", state |-> "State",
    configuration |-> "Configuration", pubsub |-> "PubSub",
    secrets |-> "Secrets", binding |-> "Binding",
    database |-> "Database", file |-> "File", lock |-> "Lock",
    telemetry |-> "Telemetry", redis |-> "Redis", sql |-> "SQL",
    s3 |-> "S3", email |-> "Email", sms |-> "SMS",
    encryption |-> "Encryption" ]

DefaultEndpoint == Str("http://localhost:3500")

DefaultTimeout == Num(30)

\* the 'capability unbound' condition of accessor c
Unbound(c) ==
  BuiltinException("NotImplementedError", RuntimeLabel[c] \o " runtime not implemented")

AccessorRaisesSystemException(s, c) ==
  IF s[SlotOf[c]] = NoneVal
    THEN Raise(SubclassException("SystemException",
                 RuntimeLabel[c] \o " runtime not implemented", NoneVal))
    ELSE Return(s[SlotOf[c]])

\* the property getter of capability c, read on a client whose slots are s
Accessor(s, c) ==
  IF s[SlotOf[c]] = NoneVal
    THEN Raise(Unbound(c))
    ELSE Return(s[SlotOf[c]])

\* the slots after `await client.close()`: the body is `pass`
CloseSlots(s) == s

CloseOutcomeRaisesWhenEmpty(s) ==
  IF \A a \in DOMAIN s : s[a] = NoneVal
    THEN Raise(BuiltinException("RuntimeError", "no provider to release"))
    ELSE Return(NoneVal)

\* how `await client.close()` ends on a client whose slots are s
CloseOutcome(s) == Return(NoneVal)

-----------------------------------------------------------------------------
(* bounds and input sets *)

\* at most this many slots hold a provider at the same time
MaxBound == 2

Providers == {Provider("p1"), Provider("p2")}

EndpointArgs == {NoneVal, Str(""), Str("http://runtime:8080")}

TimeoutArgs == {NoneVal, Num(0), Num(5)}

KwargSets == {EmptyMap, [region |-> Str("eu")], [state |-> Provider("p1")]}

BoundSlots(s) == {a \in SlotNames : s[a] # NoneVal}

-----------------------------------------------------------------------------
(* the facade as a state machine *)

ConstructBindsKwargs(e, t, kw) ==
  /\ ctorArgs = [endpoint |-> e, timeout |-> t, kwargs |-> kw]
  /\ endpoint = PyOr(e, DefaultEndpoint)
  /\ timeout = PyOr(t, DefaultTimeout)
  /\ config = Dict(kw)
  /\ slots = [a \in SlotNames |->
               IF a = "_state" /\ "state" \in DOMAIN kw THEN kw.state ELSE NoneVal]
  /\ lastBound = [a \in SlotNames |-> NoneVal]
  /\ closed = FALSE
  /\ obs = [op |-> "construct", target |-> "-", nth |-> 0, outcome |-> Return(NoneVal)]

\* CloudRuntimesClient.__init__(endpoint, timeout, **kwargs)
Construct(e, t, kw) ==
  /\ ctorArgs = [endpoint |-> e, timeout |-> t, kwargs |-> kw]
  /\ endpoint = PyOr(e, DefaultEndpoint)
  /\ timeout = PyOr(t, DefaultTimeout)
  /\ config = Dict(kw)
  /\ slots = [a \in SlotNames |-> NoneVal]
  /\ lastBound = [a \in SlotNames |-> NoneVal]
  /\ closed = FALSE
  /\ obs = [op |-> "construct", target |-> "-", nth |-> 0, outcome |-> Return(NoneVal)]

\* a provider is bound, rebound or reset by assigning the private attribute:
\* client._<capability> = v
SetSlot(a, v) ==
  /\ Cardinality(BoundSlots([slots EXCEPT ![a] = v])) <= MaxBound
  /\ slots' = [slots EXCEPT ![a] = v]
  /\ lastBound' = [lastBound EXCEPT ![a] = v]
  /\ obs' = [op |-> "bind", target |-> "-", nth |-> 0, outcome |-> Return(NoneVal)]
  /\ UNCHANGED <<ctorArgs, endpoint, timeout, config, closed, bridgeVars, ifaceVars, contractVars, runVars>>

\* reading client.<c>
ReadAccessor(c) ==
  /\ obs' = [op |-> "read", target |-> c, nth |-> 0, outcome |-> Accessor(slots, c)]
  /\ UNCHANGED <<ctorArgs, endpoint, timeout, config, slots, lastBound, closed, bridgeVars, ifaceVars, contractVars, runVars>>

\* await client.close()
\* (obs.nth tells the first call, 1, from the later ones, 2)
Close ==
  /\ closed' = TRUE
  /\ slots' = CloseSlots(slots)
  /\ obs' = [ op |-> "close", target |-> "-", nth |-> IF closed THEN 2 ELSE 1,
              outcome |-> CloseOutcome(slots) ]
  /\ UNCHANGED <<ctorArgs, endpoint, timeout, config, lastBound, bridgeVars, ifaceVars, contractVars, runVars>>

-----------------------------------------------------------------------------
(* cloud_runtimes/types: contract types (dataclasses and IntEnums) *)

Bytes(s) == [t |-> "bytes", v |-> s]

List(q) == [t |-> "list", v |-> q]

Type(n) == [t |-> "type", v |-> n]

StateConsistency ==
  [ UNDEFINED |-> [t |-> "StateConsistency", name |-> "UNDEFINED", v |-> 0],
    EVENTUAL |-> [t |-> "StateConsistency", name |-> "EVENTUAL", v |-> 1],
    STRONG |-> [t |-> "StateConsistency", name |-> "STRONG", v |-> 2] ]

StateConcurrency ==
  [ UNDEFINED |-> [t |-> "StateConcurrency", name |-> "UNDEFINED", v |-> 0],
    FIRST_WRITE |-> [t |-> "StateConcurrency", name |-> "FIRST_WRITE", v |-> 1],
    LAST_WRITE |-> [t |-> "StateConcurrency", name |-> "LAST_WRITE", v |-> 2] ]

StateOptions(concurrency, consistency) ==
  [t |-> "StateOptions", concurrency |-> concurrency, consistency |-> consistency]

HttpExtension(verb, querystring, headers) ==
  [t |-> "HttpExtension", verb |-> verb, querystring |-> querystring, headers |-> headers]

InvokeMethodRequest(app_id, method_name, data, content_type, http_verb, metadata) ==
  [ t |-> "InvokeMethodRequest", app_id |-> app_id, method_name |-> method_name,
    data |-> data, content_type |-> content_type, http_verb |-> http_verb,
    metadata |-> metadata ]

GetStateRequest(store_name, key, options, metadata) ==
  [ t |-> "GetStateRequest", store_name |-> store_name, key |-> key,
    options |-> options, metadata |-> metadata ]

ConfigurationRequestItem(store_name, app_id, keys, group, label, metadata) ==
  [ t |-> "ConfigurationRequestItem", store_name |-> store_name, app_id |-> app_id,
    keys |-> keys, group |-> group, label |-> label, metadata |-> metadata ]

ConfigurationSaveItem(key, value, group, label, metadata) ==
  [ t |-> "ConfigurationSaveItem", key |-> key, value |-> value, group |-> group,
    label |-> label, metadata |-> metadata ]

SaveConfigurationRequest(store_name, app_id, items, metadata) ==
  [ t |-> "SaveConfigurationRequest", store_name |-> store_name, app_id |-> app_id,
    items |-> items, metadata |-> metadata ]

InvokeBindingRequest(name, operation, data, metadata) ==
  [ t |-> "InvokeBindingRequest", name |-> name, operation |-> operation,
    data |-> data, metadata |-> metadata ]

-----------------------------------------------------------------------------
(* bounds and input sets of the capability calls *)

\* the recording provider captures at most this many invocations before it is replaced
MaxCalls == 2

MetadataArgs == {NoneVal, Dict([trace |-> "abc"])}

StateOptionsArgs ==
  {NoneVal} \cup
  { StateOptions(StateConcurrency[cc], StateConsistency[cs]) :
      cc \in DOMAIN StateConcurrency, cs \in DOMAIN StateConsistency }

\* the options given to the writing operations
WriteOptionsArgs ==
  {NoneVal, StateOptions(StateConcurrency.FIRST_WRITE, StateConsistency.STRONG)}

EtagArgs == {NoneVal, Str("e1")}

DataArgs == {NoneVal, Bytes("d1")}

GetStateArgs ==
  [ store_name : {Str("store")}, key : {Str("k1")},
    options : StateOptionsArgs, metadata : MetadataArgs ]

SaveStateArgs ==
  [ store_name : {Str("store")}, key : {Str("k1")}, value : {Bytes("v1")},
    etag : EtagArgs, options : WriteOptionsArgs, metadata : MetadataArgs ]

DeleteStateArgs ==
  [ store_name : {Str("store")}, key : {Str("k1")},
    etag : EtagArgs, options : WriteOptionsArgs, metadata : MetadataArgs ]

InvokeMethodArgs ==
  [ app_id : {Str("app")}, method_name : {Str("m")}, data : DataArgs,
    http_extension : {NoneVal, HttpExtension(Str("POST"), NoneVal, NoneVal)},
    metadata : MetadataArgs ]

InvokeMethodTypedArgs ==
  [ app_id : {Str("app")}, method_name : {Str("m")}, data : {Str("payload")},
    response_type : {Type("dict")},
    http_extension : {NoneVal, HttpExtension(Str("POST"), NoneVal, NoneVal)},
    metadata : MetadataArgs ]

InvokeMethodRequestArgs ==
  [ request :
      { InvokeMethodRequest(Str("app"), Str("m"), d, NoneVal, Str("POST"), m) :
          d \in DataArgs, m \in MetadataArgs } ]

PublishEventArgs ==
  [ pubsub_name : {Str("bus")}, topic_name : {Str("orders")},
    data : {Bytes("d1")}, metadata : MetadataArgs ]

PublishCustomArgs ==
  [ pubsub_name : {Str("bus")}, topic_name : {Str("orders")},
    data : {Str("payload")}, metadata : MetadataArgs ]

GetConfigurationArgs ==
  [ store_name : {Str("cfg")}, app_id : {Str("app")},
    keys : {List(<<Str("k1")>>), List(<<Str("k1"), Str("k2")>>)},
    metadata : MetadataArgs ]

SaveConfigurationArgs ==
  [ request :
      { SaveConfigurationRequest(Str("cfg"), Str("app"),
          List(<<ConfigurationSaveItem(Str("k1"), Str("v1"), NoneVal, NoneVal, NoneVal)>>), m) :
          m \in MetadataArgs } ]

ConfigurationRequestArgs ==
  [ request :
      { ConfigurationRequestItem(Str("cfg"), Str("app"), List(<<Str("k1")>>),
          NoneVal, NoneVal, m) : m \in MetadataArgs } ]

GetStateRequestArgs ==
  [ request :
      { GetStateRequest(Str("store"), Str("k1"), o, m) :
          o \in WriteOptionsArgs, m \in MetadataArgs } ]

InvokeBindingArgs ==
  [ binding_name : {Str("b")}, operation : {Str("create")},
    data : DataArgs, metadata : MetadataArgs ]

InvokeBindingRequestArgs ==
  [ request :
      { InvokeBindingRequest(a.binding_name, a.operation, a.data, a.metadata) :
          a \in InvokeBindingArgs } ]

\* what a test arranges the provider's operations to do
ProviderOutcomes ==
  { Return(NoneVal),
    Return(Bytes("result")),
    Raise(SubclassException("TimeoutException", "timed out", Dict([store |-> "store"]))),
    Raise(SubclassException("ConflictException", "etag mismatch", NoneVal)) }

-----------------------------------------------------------------------------
(* the capability interfaces: suspending operations and *_sync wrappers *)

\* the parameters of the suspending operations, in declaration order
AsyncParams ==
  [ get_state |-> <<"store_name", "key", "options", "metadata">>,
    get_state_with_request |-> <<"request">>,
    save_state |-> <<"store_name", "key", "value", "etag", "options", "metadata">>,
    delete_state |-> <<"store_name", "key", "etag", "options", "metadata">>,
    invoke_method |-> <<"app_id", "method_name", "data", "http_extension", "metadata">>,
    invoke_method_with_request |-> <<"request">>,
    invoke_method_typed |->
      <<"app_id", "method_name", "data", "response_type", "http_extension", "metadata">>,
    publish_event |-> <<"pubsub_name", "topic_name", "data", "metadata">>,
    publish_event_from_custom_content |-> <<"pubsub_name", "topic_name", "data", "metadata">>,
    get_configuration |-> <<"store_name", "app_id", "keys", "metadata">>,
    save_configuration |-> <<"request">>,
    delete_configuration |-> <<"request">>,
    invoke_binding |-> <<"binding_name", "operation", "data", "metadata">>,
    invoke_binding_with_request |-> <<"request">> ]

AsyncioRunWrapsError(running, coro) ==
  IF running
    THEN [ran |-> FALSE, outcome |->
            Raise(BuiltinException("RuntimeError",
              "asyncio.run() cannot be called from a running event loop"))]
    ELSE [ran |-> TRUE, outcome |->
            IF coro.k = "raise"
              THEN Raise(SubclassException("SystemException", coro.v.message, NoneVal))
              ELSE coro]

\* asyncio.run(coro) as the wrappers use it: it refuses to start inside a
\* running event loop (the coroutine body is then never executed); otherwise
\* it runs the coroutine to completion on a fresh loop and returns its result
\* or re-raises its exception
AsyncioRun(running, coro) ==
  IF running
    THEN [ran |-> FALSE, outcome |->
            Raise(BuiltinException("RuntimeError",
              "asyncio.run() cannot be called from a running event loop"))]
    ELSE [ran |-> TRUE, outcome |-> coro]

\* the outcome of a suspending operation that was never executed
NotRun == [k |-> "not run", v |-> NoneVal]

\* the recording provider captures the operation and the positional arguments
Recorded(op, passed) == [op |-> op, args |-> passed]

RunSyncNested(w, target, a, passed) ==
  LET r == AsyncioRun(FALSE, programmed) IN
    /\ call_count < MaxCalls
    /\ call_count' = IF r.ran THEN call_count + 1 ELSE call_count
    /\ res' = [ form |-> "sync", op |-> w, args |-> a, inLoop |-> loopRunning,
                recorded |-> IF r.ran THEN <<Recorded(target, passed)>> ELSE <<>>,
                coro |-> IF r.ran THEN programmed ELSE NotRun,
                outcome |-> r.outcome ]
    /\ UNCHANGED <<programmed, loopRunning, facadeVars, ifaceVars, contractVars, runVars>>

RunSyncKeepsLoopOnError(w, target, a, passed) ==
  LET r == AsyncioRun(loopRunning, programmed) IN
    /\ call_count < MaxCalls
    /\ call_count' = IF r.ran THEN call_count + 1 ELSE call_count
    /\ res' = [ form |-> "sync", op |-> w, args |-> a, inLoop |-> loopRunning,
                recorded |-> IF r.ran THEN <<Recorded(target, passed)>> ELSE <<>>,
                coro |-> IF r.ran THEN programmed ELSE NotRun,
                outcome |-> r.outcome ]
    /\ loopRunning' = (loopRunning \/ (r.ran /\ r.outcome.k = "raise"))
    /\ UNCHANGED <<programmed, facadeVars, ifaceVars, contractVars, runVars>>

\* a wrapper body `return asyncio.run(self.<target>(<passed>))`, called as
\* <w>(<a>) on a provider whose operations end as `programmed`; res.recorded
\* is what the provider captured during the call, res.coro how the suspending
\* operation ended
RunSync(w, target, a, passed) ==
  LET r == AsyncioRun(loopRunning, programmed) IN
    /\ call_count < MaxCalls
    /\ call_count' = IF r.ran THEN call_count + 1 ELSE call_count
    /\ res' = [ form |-> "sync", op |-> w, args |-> a, inLoop |-> loopRunning,
                recorded |-> IF r.ran THEN <<Recorded(target, passed)>> ELSE <<>>,
                coro |-> IF r.ran THEN programmed ELSE NotRun,
                outcome |-> r.outcome ]
    /\ UNCHANGED <<programmed, loopRunning, facadeVars, ifaceVars, contractVars, runVars>>

\* `await provider.<op>(<passed>)` from a coroutine: the call goes straight to
\* the provider's implementation of the abstract operation
Await(op, a, passed) ==
  /\ loopRunning
  /\ call_count < MaxCalls
  /\ call_count' = call_count + 1
  /\ res' = [ form |-> "async", op |-> op, args |-> a, inLoop |-> TRUE,
              recorded |-> <<Recorded(op, passed)>>,
              coro |-> programmed, outcome |-> programmed ]
  /\ UNCHANGED <<programmed, loopRunning, facadeVars, ifaceVars, contractVars, runVars>>

(* StateRuntimes *)

get_state(a) ==
  Await("get_state", a, <<a.store_name, a.key, a.options, a.metadata>>)

get_state_with_request(a) ==
  Await("get_state_with_request", a, <<a.request>>)

save_state(a) ==
  Await("save_state", a,
        <<a.store_name, a.key, a.value, a.etag, a.options, a.metadata>>)

delete_state(a) ==
  Await("delete_state", a, <<a.store_name, a.key, a.etag, a.options, a.metadata>>)

get_state_sync_swapped(a) ==
  RunSync("get_state_sync", "get_state", a,
          <<a.store_name, a.key, a.metadata, a.options>>)

get_state_sync(a) ==
  RunSync("get_state_sync", "get_state", a,
          <<a.store_name, a.key, a.options, a.metadata>>)

save_state_sync(a) ==
  RunSync("save_state_sync", "save_state", a,
          <<a.store_name, a.key, a.value, a.etag, a.options, a.metadata>>)

delete_state_sync(a) ==
  RunSync("delete_state_sync", "delete_state", a,
          <<a.store_name, a.key, a.etag, a.options, a.metadata>>)

(* InvocationRuntimes *)

invoke_method_sync(a) ==
  RunSync("invoke_method_sync", "invoke_method", a,
          <<a.app_id, a.method_name, a.data, a.http_extension, a.metadata>>)

invoke_method_with_request_sync(a) ==
  RunSync("invoke_method_with_request_sync", "invoke_method_with_request", a,
          <<a.request>>)

invoke_method_typed_sync(a) ==
  RunSync("invoke_method_typed_sync", "invoke_method_typed", a,
          <<a.app_id, a.method_name, a.data, a.response_type,
            a.http_extension, a.metadata>>)

(* PubSubRuntimes *)

publish_event_sync(a) ==
  RunSync("publish_event_sync", "publish_event", a,
          <<a.pubsub_name, a.topic_name, a.data, a.metadata>>)

publish_event_from_custom_content_sync_calls_publish_event(a) ==
  RunSync("publish_event_from_custom_content_sync", "publish_event", a,
          <<a.pubsub_name, a.topic_name, a.data, a.metadata>>)

publish_event_from_custom_content_sync(a) ==
  RunSync("publish_event_from_custom_content_sync",
          "publish_event_from_custom_content", a,
          <<a.pubsub_name, a.topic_name, a.data, a.metadata>>)

(* ConfigurationRuntimes *)

get_configuration_sync(a) ==
  RunSync("get_configuration_sync", "get_configuration", a,
          <<a.store_name, a.app_id, a.keys, a.metadata>>)

save_configuration_sync(a) ==
  RunSync("save_configuration_sync", "save_configuration", a, <<a.request>>)

delete_configuration_sync(a) ==
  RunSync("delete_configuration_sync", "delete_configuration", a, <<a.request>>)

(* BindingRuntimes *)

invoke_binding(a) ==
  Await("invoke_binding", a, <<a.binding_name, a.operation, a.data, a.metadata>>)

invoke_binding_with_request(a) ==
  Await("invoke_binding_with_request", a, <<a.request>>)

(* the test harness and the caller's context *)

\* a test arranges how the provider's operations end
Program(o) ==
  /\ programmed # o
  /\ programmed' = o
  /\ UNCHANGED <<call_count, loopRunning, res, facadeVars, ifaceVars, contractVars, runVars>>

\* a fresh recording provider (the test fixture)
NewProvider ==
  /\ call_count > 0
  /\ call_count' = 0
  /\ UNCHANGED <<programmed, loopRunning, res, facadeVars, ifaceVars, contractVars, runVars>>

\* the caller enters a coroutine driven by an event loop of its thread
EnterLoop ==
  /\ ~loopRunning
  /\ loopRunning' = TRUE
  /\ UNCHANGED <<call_count, programmed, res, facadeVars, ifaceVars, contractVars, runVars>>

\* the caller's coroutine finishes and its event loop stops
LeaveLoop ==
  /\ loopRunning
  /\ loopRunning' = FALSE
  /\ UNCHANGED <<call_count, programmed, res, facadeVars, ifaceVars, contractVars, runVars>>

BridgeInit ==
  /\ call_count = 0
  /\ programmed = Return(NoneVal)
  /\ loopRunning = FALSE
  /\ res = [ form |-> "none", op |-> "-", args |-> NoneVal, inLoop |-> FALSE,
             recorded |-> <<>>, coro |-> NotRun, outcome |-> Return(NoneVal) ]

-----------------------------------------------------------------------------
(* the operations each capability interface declares *)

\* the suspending operations InvocationRuntimes declares
InvocationRuntimes_async ==
  { "invoke_method", "invoke_method_with_request", "invoke_method_typed",
    "register_method", "register_server" }

\* the blocking wrappers InvocationRuntimes defines
InvocationRuntimes_sync ==
  { "invoke_method_sync", "invoke_method_with_request_sync",
    "invoke_method_typed_sync" }

\* the suspending operations StateRuntimes declares
StateRuntimes_async ==
  { "get_state", "get_state_with_request", "get_state_typed",
    "get_bulk_state", "get_bulk_state_with_request", "save_state",
    "save_bulk_state", "delete_state", "delete_state_with_request",
    "execute_state_transaction" }

\* the blocking wrappers StateRuntimes defines
StateRuntimes_sync ==
  { "get_state_sync", "save_state_sync", "delete_state_sync" }

\* the suspending operations ConfigurationRuntimes declares
ConfigurationRuntimes_async ==
  { "get_configuration", "get_configuration_with_group",
    "get_configuration_with_group_and_label",
    "get_configuration_with_request", "save_configuration",
    "delete_configuration", "subscribe_configuration",
    "unsubscribe_configuration" }

\* the blocking wrappers ConfigurationRuntimes defines
ConfigurationRuntimes_sync ==
  { "get_configuration_sync", "save_configuration_sync",
    "delete_configuration_sync" }

\* the suspending operations PubSubRuntimes declares
PubSubRuntimes_async ==
  { "publish_event", "publish_event_from_custom_content",
    "publish_event_with_request", "subscribe_events", "unsubscribe_events" }

\* the blocking wrappers PubSubRuntimes defines
PubSubRuntimes_sync ==
  { "publish_event_sync", "publish_event_from_custom_content_sync" }

\* the suspending operations SecretsRuntimes declares
SecretsRuntimes_async ==
  { "get_secret", "get_bulk_secret", "get_secret_with_request",
    "get_bulk_secret_with_request", "list_secret_stores",
    "check_secret_exists", "get_secret_metadata", "list_secrets" }

\* the blocking wrappers SecretsRuntimes defines
SecretsRuntimes_sync ==
  {}

\* the suspending operations BindingRuntimes declares
BindingRuntimes_async ==
  { "invoke_binding", "invoke_binding_with_request", "list_input_bindings",
    "list_output_bindings", "register_binding_event_handler",
    "unregister_binding_event_handler", "get_binding_metadata",
    "check_binding_health", "invoke_binding_async",
    "get_binding_operation_result", "cancel_binding_operation" }

\* the blocking wrappers BindingRuntimes defines
BindingRuntimes_sync ==
  {}

\* the suspending operations DatabaseRuntimes declares
DatabaseRuntimes_async ==
  { "get_connection", "get_connection_with_request", "create_table",
    "create_table_with_request", "delete_table", "delete_table_with_request",
    "insert", "insert_with_request", "insert_with_data", "query",
    "query_with_request", "query_with_data", "update", "update_with_request",
    "update_with_data", "begin_transaction", "commit_transaction",
    "rollback_transaction", "execute_sql", "list_tables", "get_table_schema" }

\* the blocking wrappers DatabaseRuntimes defines
DatabaseRuntimes_sync ==
  {}

\* the suspending operations FileRuntimes declares
FileRuntimes_async ==
  { "get_file", "get_file_with_request", "put_file", "put_file_with_request",
    "put_file_stream", "list_files", "list_files_with_request", "delete_file",
    "delete_file_with_request", "stat_file", "stat_file_with_request",
    "copy_file", "copy_file_with_request", "move_file",
    "move_file_with_request", "create_directory",
    "create_directory_with_request", "delete_directory",
    "delete_directory_with_request", "set_file_permissions",
    "set_file_permissions_with_request", "watch_file",
    "watch_file_with_request", "stop_watching" }

\* the blocking wrappers FileRuntimes defines
FileRuntimes_sync ==
  {}

\* the suspending operations LockRuntimes declares
LockRuntimes_async ==
  { "try_lock", "try_lock_with_request", "unlock", "unlock_with_request",
    "try_lock_with_timeout", "renew_lock", "get_lock_status", "list_locks",
    "force_unlock", "is_locked" }

\* the blocking wrappers LockRuntimes defines
LockRuntimes_sync ==
  {}

\* the suspending operations TelemetryRuntimes declares
TelemetryRuntimes_async ==
  { "with_trace_id", "with_auth_token", "build_tracer",
    "get_context_propagators", "build_meter", "record_metric",
    "record_metric_with_request", "increment_counter",
    "increment_counter_with_request", "record_histogram",
    "record_histogram_with_request", "set_gauge", "set_gauge_with_request",
    "get_metrics", "get_metrics_with_request", "create_span",
    "create_span_with_request", "get_trace_context", "inject_trace_context",
    "extract_trace_context" }

\* the blocking wrappers TelemetryRuntimes defines
TelemetryRuntimes_sync ==
  {}

\* the suspending operations RedisRuntimes declares
RedisRuntimes_async ==
  { "redis_get", "redis_set", "redis_del", "redis_exists", "redis_expire",
    "redis_ttl", "redis_incr", "redis_incr_by", "redis_decr", "redis_decr_by",
    "redis_hget", "redis_hset", "redis_hget_all", "redis_hdel", "redis_lpush",
    "redis_rpush", "redis_lpop", "redis_rpop", "redis_llen", "redis_sadd",
    "redis_srem", "redis_smembers", "redis_sismember", "redis_zadd",
    "redis_zrem", "redis_zrange", "redis_execute" }

\* the blocking wrappers RedisRuntimes defines
RedisRuntimes_sync ==
  {}

\* the suspending operations SqlRuntimes declares
SqlRuntimes_async ==
  { "sql_execute", "sql_execute_with_request", "sql_query",
    "sql_query_with_request", "sql_query_row", "sql_query_row_with_request",
    "sql_begin_tx", "sql_begin_tx_with_request", "sql_commit_tx",
    "sql_rollback_tx", "sql_prepare", "sql_prepare_with_request",
    "sql_execute_prepared", "sql_execute_prepared_with_request",
    "sql_close_prepared", "sql_get_connection_info", "sql_ping",
    "sql_get_schema" }

\* the blocking wrappers SqlRuntimes defines
SqlRuntimes_sync ==
  {}

\* the suspending operations S3Runtimes declares
S3Runtimes_async ==
  { "s3_get_object", "s3_get_object_with_request", "s3_get_object_stream",
    "s3_put_object", "s3_put_object_with_request", "s3_put_object_stream",
    "s3_delete_object", "s3_delete_object_with_request", "s3_list_objects",
    "s3_list_objects_with_request", "s3_head_object",
    "s3_head_object_with_request", "s3_copy_object",
    "s3_copy_object_with_request", "s3_create_bucket",
    "s3_create_bucket_with_request", "s3_delete_bucket",
    "s3_delete_bucket_with_request", "s3_list_buckets",
    "s3_get_presigned_url", "s3_get_presigned_url_with_request" }

\* the blocking wrappers S3Runtimes defines
S3Runtimes_sync ==
  {}

\* the suspending operations EmailRuntimes declares
EmailRuntimes_async ==
  { "send_email", "send_email_with_request", "send_email_with_template",
    "send_email_with_template_request", "get_email_status", "send_bulk_email",
    "validate_email_address", "get_email_templates", "create_email_template",
    "delete_email_template" }

\* the blocking wrappers EmailRuntimes defines
EmailRuntimes_sync ==
  {}

\* the suspending operations SMSRuntimes declares
SMSRuntimes_async ==
  { "send_sms", "send_sms_with_request", "send_sms_with_template",
    "send_sms_with_template_request", "get_sms_status", "send_bulk_sms",
    "validate_phone_number", "get_sms_templates", "create_sms_template",
    "delete_sms_template", "get_delivery_report" }

\* the blocking wrappers SMSRuntimes defines
SMSRuntimes_sync ==
  {}

\* the suspending operations EncryptionRuntimes declares
EncryptionRuntimes_async ==
  { "encrypt", "encrypt_with_request", "decrypt", "decrypt_with_request",
    "generate_key", "generate_key_with_request", "hash_data",
    "hash_data_with_request", "verify_hash", "verify_hash_with_request",
    "generate_random_bytes", "generate_uuid", "sign_data", "verify_signature"
    }

\* the blocking wrappers EncryptionRuntimes defines
EncryptionRuntimes_sync ==
  {}

AsyncOps ==
  [ InvocationRuntimes |-> InvocationRuntimes_async,
    StateRuntimes |-> StateRuntimes_async,
    ConfigurationRuntimes |-> ConfigurationRuntimes_async,
    PubSubRuntimes |-> PubSubRuntimes_async,
    SecretsRuntimes |-> SecretsRuntimes_async,
    BindingRuntimes |-> BindingRuntimes_async,
    DatabaseRuntimes |-> DatabaseRuntimes_async,
    FileRuntimes |-> FileRuntimes_async,
    LockRuntimes |-> LockRuntimes_async,
    TelemetryRuntimes |-> TelemetryRuntimes_async,
    RedisRuntimes |-> RedisRuntimes_async,
    SqlRuntimes |-> SqlRuntimes_async,
    S3Runtimes |-> S3Runtimes_async,
    EmailRuntimes |-> EmailRuntimes_async,
    SMSRuntimes |-> SMSRuntimes_async,
    EncryptionRuntimes |-> EncryptionRuntimes_async ]

SyncOps ==
  [ InvocationRuntimes |-> InvocationRuntimes_sync,
    StateRuntimes |-> StateRuntimes_sync,
    ConfigurationRuntimes |-> ConfigurationRuntimes_sync,
    PubSubRuntimes |-> PubSubRuntimes_sync,
    SecretsRuntimes |-> SecretsRuntimes_sync,
    BindingRuntimes |-> BindingRuntimes_sync,
    DatabaseRuntimes |-> DatabaseRuntimes_sync,
    FileRuntimes |-> FileRuntimes_sync,
    LockRuntimes |-> LockRuntimes_sync,
    TelemetryRuntimes |-> TelemetryRuntimes_sync,
    RedisRuntimes |-> RedisRuntimes_sync,
    SqlRuntimes |-> SqlRuntimes_sync,
    S3Runtimes |-> S3Runtimes_sync,
    EmailRuntimes |-> EmailRuntimes_sync,
    SMSRuntimes |-> SMSRuntimes_sync,
    EncryptionRuntimes |-> EncryptionRuntimes_sync ]

SyncParams ==
  [ invoke_method_sync |-> <<"app_id", "method_name", "data", "http_extension", "metadata">>,
    invoke_method_with_request_sync |-> <<"request">>,
    invoke_method_typed_sync |-> <<"app_id", "method_name", "data", "response_type", "http_extension", "metadata">>,
    get_state_sync |-> <<"store_name", "key", "options", "metadata">>,
    save_state_sync |-> <<"store_name", "key", "value", "etag", "options", "metadata">>,
    delete_state_sync |-> <<"store_name", "key", "etag", "options", "metadata">>,
    get_configuration_sync |-> <<"store_name", "app_id", "keys", "metadata">>,
    save_configuration_sync |-> <<"request">>,
    delete_configuration_sync |-> <<"request">>,
    publish_event_sync |-> <<"pubsub_name", "topic_name", "data", "metadata">>,
    publish_event_from_custom_content_sync |-> <<"pubsub_name", "topic_name", "data", "metadata">> ]

SyncReturns ==
  [ invoke_method_sync |-> "bytes",
    invoke_method_with_request_sync |-> "InvokeMethodResponse",
    invoke_method_typed_sync |-> "Any",
    get_state_sync |-> "State[bytes]",
    save_state_sync |-> "None",
    delete_state_sync |-> "None",
    get_configuration_sync |-> "List[ConfigurationItem]",
    save_configuration_sync |-> "None",
    delete_configuration_sync |-> "None",
    publish_event_sync |-> "str",
    publish_event_from_custom_content_sync |-> "str" ]

AsyncReturns ==
  [ get_state |-> "State[bytes]",
    get_state_with_request |-> "State[bytes]",
    save_state |-> "None",
    delete_state |-> "None",
    invoke_method |-> "bytes",
    invoke_method_with_request |-> "InvokeMethodResponse",
    invoke_method_typed |-> "Any",
    publish_event |-> "str",
    publish_event_from_custom_content |-> "str",
    get_configuration |-> "List[ConfigurationItem]",
    save_configuration |-> "None",
    delete_configuration |-> "None",
    invoke_binding |-> "InvokeBindingResponse",
    invoke_binding_with_request |-> "InvokeBindingResponse" ]

Interfaces == DOMAIN AsyncOps

\* getattr(provider, name) on an instance of a concrete subclass of iface:
\* the subclass implements every abstract operation and inherits the wrappers
GetAttr(iface, name) ==
  IF name \in AsyncOps[iface] \cup SyncOps[iface]
    THEN Return([t |-> "method", name |-> name])
    ELSE Raise(BuiltinException("AttributeError",
                 "'" \o iface \o "' object has no attribute '" \o name \o "'"))

\* a caller looks up the suspending operation op of a provider
GetOperation(iface, op) ==
  /\ lookup' = [ iface |-> iface, op |-> op, name |-> op,
                 outcome |-> GetAttr(iface, op) ]
  /\ UNCHANGED <<facadeVars, bridgeVars, contractVars, runVars>>

\* a caller looks up the blocking counterpart of the suspending operation op
GetSyncCounterpart(iface, op) ==
  /\ lookup' = [ iface |-> iface, op |-> op, name |-> op \o "_sync",
                 outcome |-> GetAttr(iface, op \o "_sync") ]
  /\ UNCHANGED <<facadeVars, bridgeVars, contractVars, runVars>>

IfaceInit ==
  lookup = [iface |-> "-", op |-> "-", name |-> "-", outcome |-> Return(NoneVal)]

-----------------------------------------------------------------------------
(* constructing error values: cloud_runtimes/exceptions.py *)

MessageArgs == {"", "timed out", "etag mismatch"}

DetailsArgs == {NoneVal, Dict(EmptyMap), Dict([store |-> "store"])}

\* the codes a caller gives the base class: the eight constants of the module
\* and codes of its own (verify_complete.py uses "TEST_ERROR")
CodeArgs == ErrorCodes \cup {"TEST_ERROR", ""}

\* e = CloudRuntimesException(code, message, details)
NewBaseException(code, message, details) ==
  /\ raised' = [ cls |-> "CloudRuntimesException",
                 args |-> [code |-> code, message |-> message, details |-> details],
                 exc |-> CloudRuntimesException("CloudRuntimesException",
                                                code, message, details) ]
  /\ UNCHANGED <<held, made, bulk, facadeVars, bridgeVars, ifaceVars, runVars>>

\* e = <cls>(message, details) for one of the eight subclasses
NewSubclassException(cls, message, details) ==
  /\ raised' = [ cls |-> cls,
                 args |-> [message |-> message, details |-> details],
                 exc |-> SubclassException(cls, message, details) ]
  /\ UNCHANGED <<held, made, bulk, facadeVars, bridgeVars, ifaceVars, runVars>>

-----------------------------------------------------------------------------
(* the dataclasses of cloud_runtimes/types as classes: fields, generated     *)
(* __init__, __eq__ and attribute assignment                                 *)

\* the default of a field that has none (dataclasses.MISSING)
MISSING == [t |-> "MISSING"]

Bool(b) == [t |-> "bool", v |-> b]

Field(name, type, default) == [name |-> name, type |-> type, default |-> default]

\* the fields of each dataclass in declaration order, with the annotation
\* (the alias Metadata written out as Dict[str, str]) and the default
DataclassFields ==
  [ Response |->
      << Field("data", "T", MISSING),
         Field("metadata", "Optional[Dict[str, str]]", NoneVal),
         Field("error", "Optional[CloudRuntimesException]", NoneVal) >>,
    State |->
      << Field("key", "str", MISSING),
         Field("value", "T", MISSING),
         Field("etag", "Optional[str]", NoneVal),
         Field("metadata", "Optional[Dict[str, str]]", NoneVal) >>,
    ETag |->
      << Field("value", "str", MISSING) >>,
    StateOptions |->
      << Field("concurrency", "Optional[StateConcurrency]", NoneVal),
         Field("consistency", "Optional[StateConsistency]", NoneVal) >>,
    InvokeMethodRequest |->
      << Field("app_id", "str", MISSING),
         Field("method_name", "str", MISSING),
         Field("data", "Optional[bytes]", NoneVal),
         Field("content_type", "Optional[str]", NoneVal),
         Field("http_verb", "Optional[str]", NoneVal),
         Field("metadata", "Optional[Dict[str, str]]", NoneVal) >>,
    GetStateRequest |->
      << Field("store_name", "str", MISSING),
         Field("key", "str", MISSING),
         Field("options", "Optional[StateOptions]", NoneVal),
         Field("metadata", "Optional[Dict[str, str]]", NoneVal) >>,
    DeleteStateRequest |->
      << Field("store_name", "str", MISSING),
         Field("key", "str", MISSING),
         Field("etag", "Optional[ETag]", NoneVal),
         Field("options", "Optional[StateOptions]", NoneVal),
         Field("metadata", "Optional[Dict[str, str]]", NoneVal) >>,
    PublishEventRequest |->
      << Field("pubsub_name", "str", MISSING),
         Field("topic_name", "str", MISSING),
         Field("data", "bytes", MISSING),
         Field("metadata", "Optional[Dict[str, str]]", NoneVal) >>,
    GetSecretRequest |->
      << Field("store_name", "str", MISSING),
         Field("secret_name", "str", MISSING),
         Field("metadata", "Optional[Dict[str, str]]", NoneVal) >>,
    GetBulkSecretRequest |->
      << Field("store_name", "str", MISSING),
         Field("metadata", "Optional[Dict[str, str]]", NoneVal) >>,
    InvokeBindingRequest |->
      << Field("name", "str", MISSING),
         Field("operation", "str", MISSING),
         Field("data", "Optional[bytes]", NoneVal),
         Field("metadata", "Optional[Dict[str, str]]", NoneVal) >>,
    SendEmailRequest |->
      << Field("from_", "str", MISSING),
         Field("to", "List[str]", MISSING),
         Field("cc", "Optional[List[str]]", NoneVal),
         Field("bcc", "Optional[List[str]]", NoneVal),
         Field("subject", "str", Str("")),
         Field("body", "str", Str("")),
         Field("body_type", "str", Str("text")),
         Field("attachments", "Optional[List[EmailAttachment]]", NoneVal),
         Field("metadata", "Optional[Dict[str, str]]", NoneVal) >> ]

FieldNames(cls) == {DataclassFields[cls][i].name : i \in DOMAIN DataclassFields[cls]}

FieldOf(cls, n) ==
  DataclassFields[cls][CHOOSE i \in DOMAIN DataclassFields[cls] :
                         DataclassFields[cls][i].name = n]

\* the first element, in declaration order, of a non-empty set of field names
FirstOf(cls, names) ==
  DataclassFields[cls][CHOOSE i \in DOMAIN DataclassFields[cls] :
                         /\ DataclassFields[cls][i].name \in names
                         /\ \A j \in 1..(i - 1) :
                              DataclassFields[cls][j].name \notin names].name

\* cls(**kw), the __init__ that @dataclass generates: a keyword that is no
\* field is a TypeError, and so is a field without default that is not given;
\* otherwise every field holds its argument or its default
DataclassInit(cls, kw) ==
  LET unexpected == DOMAIN kw \ FieldNames(cls)
      missing == {n \in FieldNames(cls) \ DOMAIN kw : FieldOf(cls, n).default = MISSING}
  IN
    IF unexpected # {}
      THEN Raise(BuiltinException("TypeError",
             "__init__() got an unexpected keyword argument '" \o
             (CHOOSE n \in unexpected : TRUE) \o "'"))
    ELSE IF missing # {}
      THEN Raise(BuiltinException("TypeError",
             "__init__() missing required argument '" \o
             FirstOf(cls, missing) \o "'"))
    ELSE Return([n \in FieldNames(cls) \cup {"t"} |->
                   IF n = "t" THEN cls
                   ELSE IF n \in DOMAIN kw THEN kw[n]
                   ELSE FieldOf(cls, n).default])

\* x == y, the __eq__ that @dataclass generates: instances of the same class
\* whose field tuples are equal (None and {} are different values)
DataclassEq(x, y) ==
  /\ x.t = y.t
  /\ \A n \in FieldNames(x.t) : x[n] = y[n]

\* x.n = v on an instance of a dataclass declared with plain @dataclass (not
\* frozen): the field is rebound
SetAttr(x, n, v) ==
  [obj |-> [x EXCEPT ![n] = v], outcome |-> Return(NoneVal)]

\* type(x).__name__ of a value
TypeName(x) == IF x.t = "None" THEN "NoneType" ELSE x.t

\* x.metadata[k] = v: item assignment on the dict the field holds, a TypeError
\* when the field holds None or a str
SetMetadataItem(x, k, v) ==
  IF x.metadata.t = "dict"
    THEN [ obj |-> [x EXCEPT !.metadata =
                      Dict([i \in DOMAIN x.metadata.v \cup {k} |->
                              IF i = k THEN v ELSE x.metadata.v[i]])],
           outcome |-> Return(NoneVal) ]
    ELSE [ obj |-> x,
           outcome |-> Raise(BuiltinException("TypeError",
                         "'" \o TypeName(x.metadata) \o
                         "' object does not support item assignment")) ]

\* the response and state value types (types/common.py)
Response(data, metadata, error) ==
  [t |-> "Response", data |-> data, metadata |-> metadata, error |-> error]

State(key, value, etag, metadata) ==
  [t |-> "State", key |-> key, value |-> value, etag |-> etag, metadata |-> metadata]

-----------------------------------------------------------------------------
(* the convenience operations that have a structured <op>_with_request form *)

Param(name, type) == [name |-> name, type |-> type]

\* the parameters of each convenience operation, with their annotations
ConvenienceParams ==
  [ get_state |->
      << Param("store_name", "str"), Param("key", "str"),
         Param("options", "Optional[StateOptions]"),
         Param("metadata", "Optional[Dict[str, str]]") >>,
    delete_state |->
      << Param("store_name", "str"), Param("key", "str"),
         Param("etag", "Optional[str]"),
         Param("options", "Optional[StateOptions]"),
         Param("metadata", "Optional[Dict[str, str]]") >>,
    invoke_method |->
      << Param("app_id", "str"), Param("method_name", "str"),
         Param("data", "Optional[bytes]"),
         Param("http_extension", "Optional[HttpExtension]"),
         Param("metadata", "Optional[Dict[str, str]]") >>,
    publish_event |->
      << Param("pubsub_name", "str"), Param("topic_name", "str"),
         Param("data", "bytes"),
         Param("metadata", "Optional[Dict[str, str]]") >>,
    get_secret |->
      << Param("store_name", "str"), Param("key", "str"),
         Param("metadata", "Optional[Dict[str, str]]") >>,
    get_bulk_secret |->
      << Param("store_name", "str"), Param("keys", "List[str]"),
         Param("metadata", "Optional[Dict[str, str]]") >>,
    invoke_binding |->
      << Param("binding_name", "str"), Param("operation", "str"),
         Param("data", "Optional[bytes]"),
         Param("metadata", "Optional[Dict[str, str]]") >>,
    send_email |->
      << Param("to", "List[str]"), Param("subject", "str"), Param("body", "str"),
         Param("from_email", "Optional[str]"),
         Param("cc", "Optional[List[str]]"), Param("bcc", "Optional[List[str]]"),
         Param("html_body", "Optional[str]"),
         Param("metadata", "Optional[Dict[str, str]]") >> ]

\* the request type that <op>_with_request takes
RequestClass ==
  [ get_state |-> "GetStateRequest",
    delete_state |-> "DeleteStateRequest",
    invoke_method |-> "InvokeMethodRequest",
    publish_event |-> "PublishEventRequest",
    get_secret |-> "GetSecretRequest",
    get_bulk_secret |-> "GetBulkSecretRequest",
    invoke_binding |-> "InvokeBindingRequest",
    send_email |-> "SendEmailRequest" ]

\* the field of the request type that stands for a parameter where the two
\* are named differently; a parameter not listed stands for the field of its
\* own name, if the request type has one
RenamedField ==
  [ get_secret |-> [key |-> "secret_name"],
    invoke_binding |-> [binding_name |-> "name"],
    send_email |-> [from_email |-> "from_"] ]

\* the field that carries parameter p of operation op, "-" if there is none
FieldFor(op, p) ==
  IF op \in DOMAIN RenamedField /\ p \in DOMAIN RenamedField[op]
    THEN RenamedField[op][p]
  ELSE IF p \in FieldNames(RequestClass[op]) THEN p
  ELSE "-"

ParamNames(op) == {ConvenienceParams[op][i].name : i \in DOMAIN ConvenienceParams[op]}

\* the keyword arguments that build the request of op from the arguments a of
\* the convenience call: each parameter that has a field goes to that field
RequestKeywords(op, a) ==
  LET carried == {p \in ParamNames(op) : FieldFor(op, p) # "-"} IN
    [ f \in {FieldFor(op, p) : p \in carried} |->
        a[CHOOSE p \in carried : FieldFor(op, p) = f] ]

-----------------------------------------------------------------------------
(* contract values in a caller's hands *)

MetadataValues == {NoneVal, Dict(EmptyMap), Dict([trace |-> "abc"])}

\* the arguments of the convenience calls
ConvenienceArgs ==
  [ get_state |->
      [ store_name : {Str("store")}, key : {Str("k1")},
        options : WriteOptionsArgs, metadata : MetadataValues ],
    delete_state |->
      [ store_name : {Str("store")}, key : {Str("k1")}, etag : EtagArgs,
        options : WriteOptionsArgs, metadata : MetadataValues ],
    invoke_method |-> InvokeMethodArgs,
    publish_event |-> PublishEventArgs,
    get_secret |->
      [ store_name : {Str("vault")}, key : {Str("db-password")},
        metadata : MetadataArgs ],
    get_bulk_secret |->
      [ store_name : {Str("vault")},
        keys : {List(<<Str("key1"), Str("key2")>>)},
        metadata : MetadataArgs ],
    invoke_binding |-> InvokeBindingArgs,
    send_email |->
      [ to : {List(<<Str("to@example.com")>>)}, subject : {Str("hello")},
        body : {Str("text")}, from_email : {NoneVal, Str("from@example.com")},
        cc : {NoneVal}, bcc : {NoneVal},
        html_body : {NoneVal, Str("<p>text</p>")}, metadata : {NoneVal} ] ]

\* the contract values a caller constructs and keeps
Instances ==
  { GetStateRequest(Str("store"), Str("k1"), NoneVal, m) : m \in MetadataValues } \cup
  { State(Str("k1"), Bytes("v1"), Str("e1"), m) : m \in MetadataValues } \cup
  { Response(Bytes("result"), m, NoneVal) : m \in MetadataValues } \cup
  { StateOptions(StateConcurrency.FIRST_WRITE, StateConsistency.STRONG),
    StateOptions(NoneVal, NoneVal) }

\* the values a caller assigns to a field
AssignValues == {NoneVal, Str("changed")}

\* the request of <op>_with_request built from the arguments a of <op>
BuildRequest(op, a) ==
  /\ made' = [ op |-> "build", target |-> op, args |-> a,
               outcome |-> DataclassInit(RequestClass[op], RequestKeywords(op, a)) ]
  /\ UNCHANGED <<held, raised, bulk, facadeVars, bridgeVars, ifaceVars, runVars>>

\* x = <cls>(...): the caller constructs a contract value and keeps it
New(x) ==
  /\ held' = x
  /\ made' = [op |-> "new", target |-> x.t, args |-> NoneVal, outcome |-> Return(x)]
  /\ UNCHANGED <<raised, bulk, facadeVars, bridgeVars, ifaceVars, runVars>>

\* x.<n> = v on the value the caller keeps
Assign(n, v) ==
  /\ held # NoneVal
  /\ n \in FieldNames(held.t)
  /\ held' = SetAttr(held, n, v).obj
  /\ made' = [ op |-> "setattr", target |-> n, args |-> [before |-> held, value |-> v],
               outcome |-> SetAttr(held, n, v).outcome ]
  /\ UNCHANGED <<raised, bulk, facadeVars, bridgeVars, ifaceVars, runVars>>

\* x.metadata[k] = v on the value the caller keeps
AssignMetadataItem(k, v) ==
  /\ held # NoneVal
  /\ "metadata" \in FieldNames(held.t)
  /\ held' = SetMetadataItem(held, k, v).obj
  /\ made' = [ op |-> "setitem", target |-> k, args |-> [before |-> held, value |-> v],
               outcome |-> SetMetadataItem(held, k, v).outcome ]
  /\ UNCHANGED <<raised, bulk, facadeVars, bridgeVars, ifaceVars, runVars>>

\* x == y, x the value the caller keeps
Compare(y) ==
  /\ held # NoneVal
  /\ made' = [ op |-> "eq", target |-> held.t, args |-> [left |-> held, right |-> y],
               outcome |-> Return(Bool(DataclassEq(held, y))) ]
  /\ UNCHANGED <<held, raised, bulk, facadeVars, bridgeVars, ifaceVars, runVars>>

-----------------------------------------------------------------------------
(* bulk operations: get_bulk_state, get_bulk_secret, send_bulk_email *)

BulkStateItem(key, value, etag, metadata, error) ==
  [ t |-> "BulkStateItem", key |-> key, value |-> value, etag |-> etag,
    metadata |-> metadata, error |-> error ]

SecretResponse(data) == [t |-> "SecretResponse", data |-> data]

SendEmailResponse(message_id, status, metadata) ==
  [ t |-> "SendEmailResponse", message_id |-> message_id, status |-> status,
    metadata |-> metadata ]

\* the input items of a bulk call: keys, or the recipients of the emails
ItemLists == {<<"key1">>, <<"key1", "key2">>, <<"key1", "key2", "key3">>}

\* what a provider does with one input item: it has a result for it, it has
\* none and says so in the item's slot, or it has none and leaves the item out
ItemFates == {"found", "failed", "left out"}

RECURSIVE Kept(_, _)
\* the positions, in input order from i on, of the items the provider does
\* not leave out
Kept(fate, i) ==
  IF i \notin DOMAIN fate THEN <<>>
  ELSE IF fate[i] = "left out" THEN Kept(fate, i + 1)
  ELSE <<i>> \o Kept(fate, i + 1)

\* a BulkStateItem: error is Optional[str]
StateSlot(key, fate) ==
  IF fate = "found"
    THEN BulkStateItem(Str(key), Bytes("v-" \o key), Str("e1"), NoneVal, NoneVal)
    ELSE BulkStateItem(Str(key), Bytes(""), NoneVal, NoneVal, Str("state not found"))

\* a SendEmailResponse: message_id and status are str, there is no error field
EmailSlot(to, fate) ==
  IF fate = "found"
    THEN SendEmailResponse(Str("m-" \o to), Str("sent"), NoneVal)
    ELSE SendEmailResponse(Str(""), Str("failed"), NoneVal)

\* the values of List[BulkStateItem] a provider can answer get_bulk_state with
BulkStateReturns(keys) ==
  { List([j \in DOMAIN Kept(fate, 1) |->
            StateSlot(keys[Kept(fate, 1)[j]], fate[Kept(fate, 1)[j]])]) :
      fate \in [DOMAIN keys -> ItemFates] }

\* the values of Dict[str, SecretResponse] a provider can answer
\* get_bulk_secret with: a SecretResponse has only data, so a key without
\* secret has an empty data map or no entry
BulkSecretReturns(keys) ==
  { Dict([ k \in {keys[i] : i \in {j \in DOMAIN keys : fate[j] # "left out"}} |->
             LET i == CHOOSE j \in DOMAIN keys : keys[j] = k IN
               IF fate[i] = "found"
                 THEN SecretResponse(Dict([x \in {k} |-> "value-" \o k]))
                 ELSE SecretResponse(Dict(EmptyMap)) ]) :
      fate \in [DOMAIN keys -> ItemFates] }

\* the values of List[SendEmailResponse] a provider can answer send_bulk_email with
BulkEmailReturns(emails) ==
  { List([j \in DOMAIN Kept(fate, 1) |->
            EmailSlot(emails[Kept(fate, 1)[j]], fate[Kept(fate, 1)[j]])]) :
      fate \in [DOMAIN emails -> ItemFates] }

\* the errors a provider raises from a bulk call ("Raises: CloudRuntimesError:
\* If the bulk secret retrieval fails")
BulkRaises ==
  { Raise(SubclassException("NotFoundException", "key2 not found", NoneVal)),
    Raise(SubclassException("NetworkException", "connection reset", NoneVal)) }

\* `await provider.<op>(...)` over the input items, answered by the provider
\* with `answer`, a value of the declared return type or a raised error
BulkCall(op, items, metadata, answer) ==
  /\ bulk' = [op |-> op, items |-> items, metadata |-> metadata, outcome |-> answer]
  /\ UNCHANGED <<raised, held, made, facadeVars, bridgeVars, ifaceVars, runVars>>

get_bulk_state(keys, metadata, answer) ==
  BulkCall("get_bulk_state", keys, metadata, answer)

get_bulk_secret(keys, metadata, answer) ==
  BulkCall("get_bulk_secret", keys, metadata, answer)

send_bulk_email(emails, metadata, answer) ==
  BulkCall("send_bulk_email", emails, metadata, answer)

ContractInit ==
  /\ raised = [cls |-> "-", args |-> NoneVal, exc |-> NoneVal]
  /\ held = NoneVal
  /\ made = [op |-> "-", target |-> "-", args |-> NoneVal, outcome |-> Return(NoneVal)]
  /\ bulk = [op |-> "-", items |-> <<>>, metadata |-> NoneVal, outcome |-> Return(NoneVal)]

-----------------------------------------------------------------------------
(* cloud_runtimes/client.py: a property getter read by concurrent threads.  *)
(* The getter loads the private attribute twice: once for the `is None`     *)
(* test and once for the `return`; another thread can run between the two.  *)

\* the threads (or tasks) that read accessors of one client
Threads == {"t1", "t2"}

\* the private attributes that are written while readers run
RaceSlots == {"_state", "_sms"}

\* the accessors the racing readers read
RaceTargets == {"state", "sms", "email"}

\* a thread that is in no getter
NoRead == [pc |-> "idle", target |-> "-", during |-> {}, outcome |-> Return(NoneVal)]

\* `if self._<c> is None: raise NotImplementedError(...)`: the first load of
\* the attribute and the test; "passed" when the getter goes on to its return
TestSlot(s, c) ==
  IF s[SlotOf[c]] = NoneVal THEN Raise(Unbound(c)) ELSE [k |-> "passed", v |-> NoneVal]

\* `return self._<c>`: the second load of the attribute
ReturnSlot(s, c) == Return(s[SlotOf[c]])

\* thread t calls the getter of c and runs it up to the end of its `if`;
\* reads[t].during collects every value the attribute holds during the read
BeginRead(t, c) ==
  /\ reads[t].pc \in {"idle", "done"}
  /\ LET r == TestSlot(slots, c) IN
       reads' = [reads EXCEPT ![t] =
                   [ pc |-> IF r.k = "raise" THEN "done" ELSE "passed",
                     target |-> c,
                     during |-> {slots[SlotOf[c]]},
                     outcome |-> r ]]
  /\ UNCHANGED <<sealed, inst, cm, facadeVars, bridgeVars, ifaceVars, contractVars>>

FinishReadClears(t) ==
  /\ reads[t].pc = "passed"
  /\ reads' = [reads EXCEPT ![t].pc = "done",
                            ![t].outcome = ReturnSlot(slots, reads[t].target)]
  /\ slots' = [slots EXCEPT ![SlotOf[reads[t].target]] = NoneVal]
  /\ UNCHANGED <<sealed, inst, cm, ctorArgs, endpoint, timeout, config, lastBound,
                 closed, obs, bridgeVars, ifaceVars, contractVars>>

\* thread t runs the getter's `return self._<c>`
FinishRead(t) ==
  /\ reads[t].pc = "passed"
  /\ reads' = [reads EXCEPT ![t].pc = "done",
                            ![t].outcome = ReturnSlot(slots, reads[t].target)]
  /\ UNCHANGED <<sealed, inst, cm, facadeVars, bridgeVars, ifaceVars, contractVars>>

\* another thread assigns client._<capability> = v while getters are running
Rebind(a, v) ==
  /\ slots' = [slots EXCEPT ![a] = v]
  /\ lastBound' = [lastBound EXCEPT ![a] = v]
  /\ obs' = [op |-> "bind", target |-> "-", nth |-> 0, outcome |-> Return(NoneVal)]
  /\ reads' = [t \in Threads |->
                 IF reads[t].pc = "passed" /\ SlotOf[reads[t].target] = a
                   THEN [reads[t] EXCEPT !.during = @ \cup {v}]
                   ELSE reads[t]]
  /\ UNCHANGED <<sealed, inst, cm, ctorArgs, endpoint, timeout, config, closed,
                 bridgeVars, ifaceVars, contractVars>>

\* the construction/configuration phase ends: from here on no slot is written
Seal ==
  /\ ~sealed
  /\ sealed' = TRUE
  /\ UNCHANGED <<reads, inst, cm, facadeVars, bridgeVars, ifaceVars, contractVars>>

-----------------------------------------------------------------------------
(* cloud_runtimes/client.py: assignment to an attribute of the client.      *)
(* Every accessor is a @property with a getter only.                         *)

\* the attribute names a caller assigns to
AssignNames == Capabilities \cup {"_state", "_email", "_sms"}

ClientSetAttrWithSetter(s, name, v) ==
  IF name \in Capabilities
    THEN [slots |-> [s EXCEPT ![SlotOf[name]] = v], outcome |-> Return(NoneVal)]
    ELSE [slots |-> [s EXCEPT ![name] = v], outcome |-> Return(NoneVal)]

\* `client.<name> = v` on a client whose slots are s: a property without a
\* setter rejects the assignment, any other name is stored on the instance
ClientSetAttr(s, name, v) ==
  IF name \in Capabilities
    THEN [ slots |-> s,
           outcome |-> Raise(BuiltinException("AttributeError",
             "property '" \o name \o "' of 'CloudRuntimesClient' object has no setter")) ]
    ELSE [slots |-> [s EXCEPT ![name] = v], outcome |-> Return(NoneVal)]

\* the statement `client.<name> = v`
AssignAttr(name, v) ==
  LET r == ClientSetAttr(slots, name, v) IN
    /\ slots' = r.slots
    /\ lastBound' = IF r.outcome.k = "return" /\ name \in SlotNames
                      THEN [lastBound EXCEPT ![name] = v]
                      ELSE lastBound
    /\ obs' = [op |-> "assign", target |-> name, nth |-> 0, outcome |-> r.outcome]
    /\ UNCHANGED <<ctorArgs, endpoint, timeout, config, closed,
                   bridgeVars, ifaceVars, contractVars, runVars>>

-----------------------------------------------------------------------------
(* tests/core: the recording provider of the test fixtures.  The fixture     *)
(* replaces every operation of the provider by AsyncMock(), which is given   *)
(* no signature: it records the positional and the keyword arguments of a    *)
(* call as the caller wrote them.                                            *)

\* unittest.mock.call(*args, **kwargs) on operation op
Call(op, args, kwargs) == [op |-> op, args |-> args, kwargs |-> kwargs]

\* the parameters of the operations the tests call, in declaration order
\* (each one after the first two of the bindings, and after the first of
\* list_secrets, has the default None)
MockedParams ==
  [ invoke_binding |-> <<"binding_name", "operation", "data", "metadata">>,
    invoke_binding_async |->
      <<"binding_name", "operation", "data", "callback", "metadata">>,
    list_secrets |-> <<"store_name", "prefix", "metadata">>,
    get_secret_with_request |-> <<"request">> ]

\* the calls a test writes: positional arguments and keyword arguments
WrittenCalls ==
  { Call("invoke_binding", <<Str("b"), Str("create"), Bytes("d1")>>, EmptyMap),
    Call("invoke_binding", <<Str("b"), Str("create"), Bytes("d1"), NoneVal>>, EmptyMap),
    Call("invoke_binding", <<Str("b"), Str("create")>>, [data |-> Bytes("d1")]),
    Call("invoke_binding", <<Str("b"), Str("create"), Bytes("d1")>>,
         [metadata |-> Dict([trace |-> "abc"])]),
    Call("invoke_binding_async", <<Str("b"), Str("create"), Bytes("d1")>>, EmptyMap),
    Call("invoke_binding_async",
         <<Str("b"), Str("create"), Bytes("d1"), NoneVal, NoneVal>>, EmptyMap),
    Call("list_secrets", <<Str("s")>>, [prefix |-> Str("app.")]),
    Call("list_secrets", <<Str("s"), Str("app."), NoneVal>>, EmptyMap),
    Call("list_secrets", <<Str("s")>>, EmptyMap) }

\* the keyword arguments a test gives to GetSecretRequest(...)
SecretRequestKeywords ==
  { [store_name |-> Str("test-store"), key |-> Str("test-key"),
     metadata |-> Dict([version |-> "1"])],
    [store_name |-> Str("test-store"), key |-> Str("test-key")],
    [store_name |-> Str("test-store"), secret_name |-> Str("test-key"),
     metadata |-> Dict([version |-> "1"])],
    [store_name |-> Str("test-store"), secret_name |-> Str("test-key")],
    [store_name |-> Str("test-store")] }

\* what the tests arrange the mocked operations to return or raise
MockOutcomes ==
  ProviderOutcomes \cup {Return(SecretResponse(Dict([key |-> "value"])))}

\* `await runtime.<op>(*args, **kwargs)` where runtime.<op> is an AsyncMock():
\* the mock captures the call as written and ends as the test programmed it
CallMock(op, args, kwargs) ==
  /\ loopRunning
  /\ call_count < MaxCalls
  /\ call_count' = call_count + 1
  /\ res' = [ form |-> "mock", op |-> op, args |-> Call(op, args, kwargs),
              inLoop |-> TRUE,
              recorded |-> <<Call(op, args, kwargs)>>,
              coro |-> programmed, outcome |-> programmed ]
  /\ UNCHANGED <<programmed, loopRunning, facadeVars, ifaceVars, contractVars, runVars>>

\* `await runtime.get_secret_with_request(request)` with the request the
\* caller keeps
get_secret_with_request ==
  /\ held # NoneVal
  /\ CallMock("get_secret_with_request", <<held>>, EmptyMap)

\* request = <cls>(**kw): the caller keeps the value when __init__ returns
NewFromKeywords(cls, kw) ==
  LET r == DataclassInit(cls, kw) IN
    /\ made' = [op |-> "init", target |-> cls, args |-> kw, outcome |-> r]
    /\ held' = IF r.k = "return" THEN r.v ELSE held
    /\ UNCHANGED <<raised, bulk, facadeVars, bridgeVars, ifaceVars, runVars>>

-----------------------------------------------------------------------------
(* the capability interfaces as abstract base classes: every interface      *)
(* derives from ABC and marks each of its suspending operations with        *)
(* @abstractmethod; the *_sync wrappers are plain methods.                   *)

AbstractMethodsUnchecked(iface, defined) == {}

\* __abstractmethods__ of a class that is iface itself (defined = {}) or
\* derives from iface and defines the names in `defined`
AbstractMethods(iface, defined) == AsyncOps[iface] \ defined

\* the classes a caller instantiates: the interface itself, and subclasses
\* that define all, all but one, or none of the suspending operations
ClassBodies(iface) ==
  {[direct |-> TRUE, defined |-> {}], [direct |-> FALSE, defined |-> {}],
   [direct |-> FALSE, defined |-> AsyncOps[iface]]} \cup
  {[direct |-> FALSE, defined |-> AsyncOps[iface] \ {op}] : op \in AsyncOps[iface]}

\* getattr(instance, name) on an instance of a class deriving from iface that
\* defines `defined`: the class's own definition, else the one it inherits
Resolve(iface, defined, name) ==
  IF name \in defined
    THEN Return([t |-> "method", name |-> name, owner |-> "subclass"])
  ELSE IF name \in AsyncOps[iface] \cup SyncOps[iface]
    THEN Return([t |-> "method", name |-> name, owner |-> iface])
  ELSE Raise(BuiltinException("AttributeError",
               "'" \o iface \o "' object has no attribute '" \o name \o "'"))

\* cls(): object.__new__ refuses a class whose __abstractmethods__ is not
\* empty (the message goes on to list the abstract methods)
Instantiate(iface, body) ==
  /\ inst' = [ iface |-> iface, direct |-> body.direct, defined |-> body.defined,
               outcome |->
                 IF AbstractMethods(iface, body.defined) # {}
                   THEN Raise(BuiltinException("TypeError",
                          "Can't instantiate abstract class " \o
                          (IF body.direct THEN iface ELSE "Mock" \o iface)))
                   ELSE Return(Provider(iface)) ]
  /\ UNCHANGED <<sealed, reads, cm, facadeVars, bridgeVars, ifaceVars, contractVars>>

\* getattr(provider, name) on the instance the caller created
GetInstanceAttr(name) ==
  /\ inst.outcome.k = "return"
  /\ inst.outcome.v # NoneVal
  /\ lookup' = [ iface |-> inst.iface, op |-> "-", name |-> name,
                 outcome |-> Resolve(inst.iface, inst.defined, name) ]
  /\ UNCHANGED <<facadeVars, bridgeVars, contractVars, runVars>>

-----------------------------------------------------------------------------
(* cloud_runtimes/client.py: the client as an async context manager *)

\* the client object (self)
Self == [t |-> "client", id |-> "CloudRuntimesClient"]

\* how the body of an `async with` block ends
BodyOutcomes ==
  { Return(NoneVal),
    Raise(BuiltinException("RuntimeError", "body failed")),
    Raise(SubclassException("TimeoutException", "timed out", NoneVal)) }

\* __aenter__: `return self`
Aenter(self) == Return(self)

AexitClosesOnSuccessOnly(s, body) ==
  [ closes |-> IF body.k = "raise" THEN 0 ELSE 1,
    slots |-> IF body.k = "raise" THEN s ELSE CloseSlots(s),
    result |-> IF body.k = "raise" THEN Return(NoneVal) ELSE CloseOutcome(s) ]

\* __aexit__(exc_type, exc_val, exc_tb): `await self.close()` and nothing
\* else, so it returns None unless close() raises; `closes` counts its calls
\* of close()
Aexit(s, body) ==
  [closes |-> 1, slots |-> CloseSlots(s), result |-> CloseOutcome(s)]

\* how the statement `async with` ends, given how its body ended and what
\* __aexit__ gave: an exception of __aexit__ replaces the body's, a true
\* return value suppresses the body's exception
WithOutcome(body, exit) ==
  IF exit.k = "raise" THEN exit
  ELSE IF body.k = "raise" /\ ~Truthy(exit.v) THEN body
  ELSE Return(NoneVal)

\* `async with client as c:` is entered: c = await client.__aenter__()
EnterWith ==
  /\ cm.pc = "out"
  /\ cm' = [ pc |-> "in", bound |-> Aenter(Self).v, closes |-> 0, body |-> NotRun,
             outcome |-> NotRun ]
  /\ UNCHANGED <<sealed, reads, inst, facadeVars, bridgeVars, ifaceVars, contractVars>>

\* the body ends as `body` and the statement awaits client.__aexit__(...)
ExitWith(body) ==
  LET x == Aexit(slots, body) IN
    /\ cm.pc = "in"
    /\ cm' = [ pc |-> "out", bound |-> cm.bound, closes |-> cm.closes + x.closes,
               body |-> body, outcome |-> WithOutcome(body, x.result) ]
    /\ closed' = (closed \/ x.closes > 0)
    /\ slots' = x.slots
    /\ obs' = IF x.closes > 0
                THEN [ op |-> "close", target |-> "-", nth |-> IF closed THEN 2 ELSE 1,
                       outcome |-> x.result ]
                ELSE obs
    /\ UNCHANGED <<sealed, reads, inst, ctorArgs, endpoint, timeout, config, lastBound,
                   bridgeVars, ifaceVars, contractVars>>

RunInit ==
  /\ sealed = FALSE
  /\ reads = [t \in Threads |-> NoRead]
  /\ inst = [iface |-> "-", direct |-> FALSE, defined |-> {}, outcome |-> Return(NoneVal)]
  /\ cm = [ pc |-> "out", bound |-> NoneVal, closes |-> 0, body |-> NotRun,
            outcome |-> NotRun ]

-----------------------------------------------------------------------------
(* Spec: a client constructed with no arguments, then bound, read and closed *)

Init ==
  Construct(NoneVal, NoneVal, EmptyMap) /\ BridgeInit /\ IfaceInit /\ ContractInit /\ RunInit

Next ==
  \/ \E a \in SlotNames, v \in Providers \cup {NoneVal} : SetSlot(a, v)
  \/ \E c \in Capabilities : ReadAccessor(c)
  \/ Close

Spec == Init /\ [][Next]_vars

(* SpecCtor: a client constructed with any arguments and no provider bound *)

InitCtor ==
  /\ \E e \in EndpointArgs, t \in TimeoutArgs, kw \in KwargSets : Construct(e, t, kw)
  /\ BridgeInit
  /\ IfaceInit
  /\ ContractInit
  /\ RunInit

NextCtor ==
  \/ \E c \in Capabilities : ReadAccessor(c)
  \/ Close

SpecCtor == InitCtor /\ [][NextCtor]_vars

(* SpecBridge: capability calls on a recording provider, in both conventions *)

NextBridge ==
  \/ \E a \in GetStateArgs : get_state(a)
  \/ \E a \in GetStateRequestArgs : get_state_with_request(a)
  \/ \E a \in SaveStateArgs : save_state(a)
  \/ \E a \in DeleteStateArgs : delete_state(a)
  \/ \E a \in GetStateArgs : get_state_sync(a)
  \/ \E a \in SaveStateArgs : save_state_sync(a)
  \/ \E a \in DeleteStateArgs : delete_state_sync(a)
  \/ \E a \in InvokeMethodArgs : invoke_method_sync(a)
  \/ \E a \in InvokeMethodRequestArgs : invoke_method_with_request_sync(a)
  \/ \E a \in InvokeMethodTypedArgs : invoke_method_typed_sync(a)
  \/ \E a \in PublishEventArgs : publish_event_sync(a)
  \/ \E a \in PublishCustomArgs : publish_event_from_custom_content_sync(a)
  \/ \E a \in GetConfigurationArgs : get_configuration_sync(a)
  \/ \E a \in SaveConfigurationArgs : save_configuration_sync(a)
  \/ \E a \in ConfigurationRequestArgs : delete_configuration_sync(a)
  \/ \E a \in InvokeBindingArgs : invoke_binding(a)
  \/ \E a \in InvokeBindingRequestArgs : invoke_binding_with_request(a)
  \/ \E o \in ProviderOutcomes : Program(o)
  \/ NewProvider
  \/ EnterLoop
  \/ LeaveLoop

SpecBridge == Init /\ [][NextBridge]_vars

(* SpecIface: attribute lookups on providers of the 16 capability interfaces *)

NextIface ==
  \/ \E iface \in Interfaces : \E op \in AsyncOps[iface] : GetOperation(iface, op)
  \/ \E iface \in Interfaces : \E op \in AsyncOps[iface] : GetSyncCounterpart(iface, op)

SpecIface == Init /\ [][NextIface]_vars

(* SpecErr: error values constructed through the base class and the subclasses *)

NextErr ==
  \/ \E code \in CodeArgs, m \in MessageArgs, d \in DetailsArgs :
       NewBaseException(code, m, d)
  \/ \E cls \in DOMAIN SubclassCode, m \in MessageArgs, d \in DetailsArgs :
       NewSubclassException(cls, m, d)

SpecErr == Init /\ [][NextErr]_vars

(* SpecTypes: contract values constructed, compared and assigned to by a caller *)

NextTypes ==
  \/ \E op \in DOMAIN RequestClass : \E a \in ConvenienceArgs[op] : BuildRequest(op, a)
  \/ \E x \in Instances : New(x)
  \/ \E n \in {"key", "value", "data", "metadata", "consistency"}, v \in AssignValues :
       Assign(n, v)
  \/ \E k \in {"trace", "timeout"} : AssignMetadataItem(k, "xyz")
  \/ \E y \in Instances : Compare(y)

SpecTypes == Init /\ [][NextTypes]_vars

(* SpecBulk: bulk calls answered by a provider with values of the declared types *)

NextBulk ==
  \/ \E keys \in ItemLists, m \in MetadataArgs :
       \E answer \in {Return(r) : r \in BulkStateReturns(keys)} \cup BulkRaises :
         get_bulk_state(keys, m, answer)
  \/ \E keys \in ItemLists, m \in MetadataArgs :
       \E answer \in {Return(r) : r \in BulkSecretReturns(keys)} \cup BulkRaises :
         get_bulk_secret(keys, m, answer)
  \/ \E emails \in ItemLists, m \in MetadataArgs :
       \E answer \in {Return(r) : r \in BulkEmailReturns(emails)} \cup BulkRaises :
         send_bulk_email(emails, m, answer)

SpecBulk == Init /\ [][NextBulk]_vars

(* SpecReaders: providers are bound, the binding phase ends, then threads read *)

NextReaders ==
  \/ \E a \in RaceSlots, v \in Providers \cup {NoneVal} : ~sealed /\ SetSlot(a, v)
  \/ Seal
  \/ \E t \in Threads, c \in Capabilities : sealed /\ BeginRead(t, c)
  \/ \E t \in Threads : FinishRead(t)

SpecReaders == Init /\ [][NextReaders]_vars

(* SpecRace: threads read accessors while another thread writes the slots *)

NextRace ==
  \/ \E a \in RaceSlots, v \in Providers \cup {NoneVal} : Rebind(a, v)
  \/ \E t \in Threads, c \in RaceTargets : BeginRead(t, c)
  \/ \E t \in Threads : FinishRead(t)

SpecRace == Init /\ [][NextRace]_vars

(* SpecAttr: a caller assigns to accessor names and to private attributes *)

NextAttr ==
  \/ \E name \in AssignNames, v \in Providers \cup {NoneVal} : AssignAttr(name, v)
  \/ \E c \in Capabilities : ReadAccessor(c)

SpecAttr == Init /\ [][NextAttr]_vars

(* SpecMock: the tests' calls on a provider whose operations are AsyncMock() *)

NextMock ==
  \/ \E w \in WrittenCalls : CallMock(w.op, w.args, w.kwargs)
  \/ get_secret_with_request
  \/ \E kw \in SecretRequestKeywords : NewFromKeywords("GetSecretRequest", kw)
  \/ \E o \in MockOutcomes : Program(o)
  \/ NewProvider
  \/ EnterLoop
  \/ LeaveLoop

SpecMock == Init /\ [][NextMock]_vars

(* SpecAbc: capability classes are instantiated and their wrappers looked up *)

NextAbc ==
  \/ \E iface \in Interfaces : \E body \in ClassBodies(iface) : Instantiate(iface, body)
  \/ \E name \in (IF inst.iface \in Interfaces THEN SyncOps[inst.iface] ELSE {}) \cup
                  {"get_secret_sync"} :
       GetInstanceAttr(name)

SpecAbc == Init /\ [][NextAbc]_vars

(* SpecWith: the client is used in `async with` blocks *)

NextWith ==
  \/ \E a \in RaceSlots, v \in Providers \cup {NoneVal} : SetSlot(a, v)
  \/ EnterWith
  \/ \E b \in BodyOutcomes : ExitWith(b)

SpecWith == Init /\ [][NextWith]_vars

-----------------------------------------------------------------------------
(* Facade claims *)

\* the exception a raising outcome carries
Exc(o) == o.v

\* C1: on a client constructed with no provider bound, reading any of the 16
\* accessors raises NotImplementedError ('capability unbound'); that exception
\* is not an instance of CloudRuntimesException and has no error code.
C1_UnboundAccessorRaisesNotImplemented ==
  obs.op = "read" =>
    /\ obs.target \in Capabilities
    /\ obs.outcome.k = "raise"
    /\ IsInstance(Exc(obs.outcome), "NotImplementedError")
    /\ ~IsInstance(Exc(obs.outcome), "CloudRuntimesException")
    /\ "code" \notin DOMAIN Exc(obs.outcome)
    /\ Exc(obs.outcome).cls \notin DOMAIN SubclassCode

C1_Witness ==
  /\ obs.op = "read"
  /\ obs.target = "encryption"
  /\ obs.outcome.k = "raise"
  /\ Exc(obs.outcome).cls = "NotImplementedError"

\* the private attribute that belongs to accessor c, by its name
AttrOf(c) == "_" \o c

C2_Step ==
  /\ obs'.op = "read" =>
       LET latest == lastBound[AttrOf(obs'.target)] IN
         /\ (latest # NoneVal => obs'.outcome = Return(latest))
         /\ (latest = NoneVal <=>
               (obs'.outcome.k = "raise" /\
                Exc(obs'.outcome).cls = "NotImplementedError"))
         /\ slots' = slots
  /\ obs'.op = "bind" =>
       /\ obs'.outcome = Return(NoneVal)
       /\ \A d \in Capabilities :
            lastBound'[AttrOf(d)] = lastBound[AttrOf(d)] =>
              Accessor(slots', d) = Accessor(slots, d)

\* C2: after any sequence of bindings, reading accessor c returns the provider
\* most recently bound to c and raises 'capability unbound' iff nothing is bound
\* to c; rebinding succeeds; binding c leaves every other accessor's result
\* unchanged; reading an accessor changes no slot.
C2_AccessorReturnsLatestBinding == [][C2_Step]_vars

C2_Witness ==
  /\ obs.op = "read"
  /\ obs.target = "email"
  /\ obs.outcome = Return(Provider("p2"))
  /\ slots["_sms"] = Provider("p1")

\* C3: a client constructed with no arguments has endpoint
\* 'http://localhost:3500', timeout 30.0, an empty option set and 16 empty
\* slots; keyword arguments are stored as the option set and bind nothing.
C3_DefaultConstruction ==
  /\ (ctorArgs = [endpoint |-> NoneVal, timeout |-> NoneVal, kwargs |-> EmptyMap] =>
        /\ endpoint = Str("http://localhost:3500")
        /\ timeout = Num(30)
        /\ config = Dict(EmptyMap))
  /\ config = Dict(ctorArgs.kwargs)
  /\ Cardinality(DOMAIN slots) = 16
  /\ \A a \in DOMAIN slots : slots[a] = NoneVal

C3_Witness ==
  /\ ctorArgs.kwargs = [state |-> Provider("p1")]
  /\ config = Dict([state |-> Provider("p1")])
  /\ obs.op = "read"
  /\ obs.target = "state"

\* C4: after close() returns no provider remains bound.
C4_CloseReleasesAllProviders ==
  obs.op = "close" =>
    /\ \A a \in DOMAIN slots : slots[a] = NoneVal
    /\ \A c \in Capabilities : Accessor(slots, c).k = "raise"

C5_CloseStep ==
  obs'.op = "close" =>
    /\ obs'.outcome = Return(NoneVal)
    /\ (closed =>
          <<ctorArgs, endpoint, timeout, config, slots>>' =
            <<ctorArgs, endpoint, timeout, config, slots>>)

\* C5: close() never raises, with zero or more providers bound, and a second
\* or later close() leaves the facade as the first one left it.
C5_CloseIdempotent == [][C5_CloseStep]_vars

C5_Witness ==
  /\ obs.op = "close"
  /\ obs.nth = 2
  /\ obs.outcome = Return(NoneVal)
  /\ \A a \in DOMAIN slots : slots[a] = NoneVal

-----
(* Bridge and contract claims *)

\* C6: when the suspending counterpart run by a *_sync call fails with an
\* error value, the *_sync call raises that same error value (same class,
\* code, message and details), not a different or wrapping exception.
C6_SyncSurfacesSameError ==
  (res.form = "sync" /\ res.coro.k = "raise") =>
    /\ res.outcome.k = "raise"
    /\ Exc(res.outcome).cls = Exc(res.coro).cls
    /\ Exc(res.outcome).code = Exc(res.coro).code
    /\ Exc(res.outcome).message = Exc(res.coro).message
    /\ Exc(res.outcome).details = Exc(res.coro).details
    /\ res.outcome = res.coro

C6_Witness ==
  /\ res.form = "sync"
  /\ res.op = "get_state_sync"
  /\ res.recorded # <<>>
  /\ res.outcome =
       Raise(SubclassException("TimeoutException", "timed out", Dict([store |-> "store"])))

\* C7: every suspending operation declared on a capability interface has a
\* blocking <op>_sync counterpart on that interface with the same parameters
\* and the same result type.
C7_EverySuspendingOpHasSyncCounterpart ==
  (lookup.op # "-" /\ lookup.name = lookup.op \o "_sync") =>
    /\ lookup.outcome.k = "return"
    /\ SyncParams[lookup.name] = AsyncParams[lookup.op]
    /\ SyncReturns[lookup.name] = AsyncReturns[lookup.op]

C9_ArgumentsReachProviderUnchanged ==
  res.recorded # <<>> =>
    LET c == res.recorded[1] IN
      /\ Len(c.args) = Len(AsyncParams[c.op])
      /\ \A i \in 1..Len(c.args) : c.args[i] = res.args[AsyncParams[c.op][i]]

C9_Witness ==
  /\ res.form = "sync"
  /\ res.op = "get_state_sync"
  /\ res.args.metadata = Dict([trace |-> "abc"])
  /\ res.args.options =
       StateOptions(StateConcurrency.FIRST_WRITE, StateConsistency.STRONG)
  /\ res.recorded # <<>>
  /\ res.recorded[1].args[4] = Dict([trace |-> "abc"])
  /\ res.recorded[1].args[3].consistency.name = "STRONG"
  /\ res.recorded[1].args[3].concurrency.name = "FIRST_WRITE"

\* the structured form of each convenience operation of the model
StructuredForm ==
  [ get_state |-> "get_state_with_request",
    invoke_binding |-> "invoke_binding_with_request" ]

\* the request value equivalent to the arguments a of convenience operation op
RequestOf(op, a) ==
  CASE op = "get_state" ->
         GetStateRequest(a.store_name, a.key, a.options, a.metadata)
    [] op = "invoke_binding" ->
         InvokeBindingRequest(a.binding_name, a.operation, a.data, a.metadata)

\* C10: a convenience call results in the same provider invocation as the
\* structured call with the equivalent request: the recording provider
\* captures the <op>_with_request operation with that request value.
C10_ConvenienceEqualsStructured ==
  (res.form = "async" /\ res.op \in DOMAIN StructuredForm) =>
    res.recorded = <<Recorded(StructuredForm[res.op], <<RequestOf(res.op, res.args)>>)>>

-----------------------------------------------------------------------------
(* Error taxonomy claims *)

\* the seven kinds of the closed enumeration and the code that stands for each
SevenKinds ==
  [ Network |-> ERROR_CODE_NETWORK,
    Authentication |-> ERROR_CODE_AUTH,
    InvalidParameter |-> ERROR_CODE_PARAM,
    ResourceNotFound |-> ERROR_CODE_NOT_FOUND,
    Conflict |-> ERROR_CODE_CONFLICT,
    Timeout |-> ERROR_CODE_TIMEOUT,
    System |-> ERROR_CODE_SYSTEM ]

EightCodes ==
  { ERROR_CODE_NETWORK, ERROR_CODE_AUTH, ERROR_CODE_PARAM, ERROR_CODE_RESOURCE,
    ERROR_CODE_SYSTEM, ERROR_CODE_TIMEOUT, ERROR_CODE_NOT_FOUND, ERROR_CODE_CONFLICT }

C13_ExceptionCarriesCodeMessageDetails ==
  raised.cls # "-" =>
    /\ {"code", "message", "details"} \subseteq DOMAIN raised.exc
    /\ raised.exc.message = raised.args.message
    /\ raised.exc.details # NoneVal
    /\ raised.exc.details.t = "dict"
    /\ (raised.args.details = NoneVal => raised.exc.details = Dict(EmptyMap))
    /\ (raised.args.details # NoneVal => raised.exc.details = raised.args.details)
    /\ (raised.cls = "TimeoutException" => raised.exc.code = "CR_TIMEOUT_ERROR")
    /\ (raised.cls = "ConflictException" => raised.exc.code = "CR_CONFLICT_ERROR")
    /\ (raised.cls = "NotFoundException" => raised.exc.code = "CR_NOT_FOUND_ERROR")
    /\ (raised.cls = "NetworkException" => raised.exc.code = "CR_NETWORK_ERROR")
    /\ (raised.cls = "AuthenticationException" => raised.exc.code = "CR_AUTH_ERROR")
    /\ (raised.cls = "ParameterException" => raised.exc.code = "CR_PARAM_ERROR")
    /\ (raised.cls = "ResourceException" => raised.exc.code = "CR_RESOURCE_ERROR")
    /\ (raised.cls = "SystemException" => raised.exc.code = "CR_SYSTEM_ERROR")

C13_Witness ==
  /\ raised.cls = "ConflictException"
  /\ raised.args.details = NoneVal
  /\ raised.exc.details = Dict(EmptyMap)
  /\ raised.args.message = "etag mismatch"

-----------------------------------------------------------------------------
(* Contract type claims *)

\* C11: every convenience operation is representable as its structured
\* request: each argument of <op> has a field of the request type of
\* <op>_with_request that stands for it, with the same type, and the request
\* built from the arguments holds every argument value (none is lost).
C11_ConvenienceRepresentableAsRequest ==
  made.op = "build" =>
    /\ made.outcome.k = "return"
    /\ \A i \in DOMAIN ConvenienceParams[made.target] :
         LET p == ConvenienceParams[made.target][i]
             f == FieldFor(made.target, p.name)
         IN /\ f # "-"
            /\ FieldOf(RequestClass[made.target], f).type = p.type
            /\ made.outcome.v[f] = made.args[p.name]

\* two values of one type that differ only in metadata, which is None in one
\* and the empty map in the other
DifferOnlyInAbsentMetadata(x, y) ==
  /\ x.t = y.t
  /\ "metadata" \in FieldNames(x.t)
  /\ \A n \in FieldNames(x.t) \ {"metadata"} : x[n] = y[n]
  /\ {x.metadata, y.metadata} = {NoneVal, Dict(EmptyMap)}

\* C14: two request or response values that differ only in metadata being
\* absent (None) in one and the empty map in the other are equal.
C14_AbsentMetadataEqualsEmpty ==
  (made.op = "eq" /\ DifferOnlyInAbsentMetadata(made.args.left, made.args.right)) =>
    made.outcome = Return(Bool(TRUE))

\* C15: once a contract value is constructed no later operation changes any
\* of its fields: an assignment to a field, or to an item of its metadata,
\* does not succeed and leaves the value as it was.
C15_ContractValuesImmutable ==
  made.op \in {"setattr", "setitem"} =>
    /\ made.outcome.k = "raise"
    /\ held = made.args.before

-----------------------------------------------------------------------------
(* Bulk operation claims *)

\* the result slots of a bulk answer: the elements of a list, the entries of
\* a dict taken in the order of the input items
SlotsOf(b) ==
  IF b.outcome.v.t = "list" THEN b.outcome.v.v
  ELSE LET present == {i \in DOMAIN b.items : b.items[i] \in DOMAIN b.outcome.v.v}
       IN [i \in present |-> b.outcome.v.v[b.items[i]]]

\* a slot that holds a per-item error tagged with an error kind
HoldsTaggedError(slot) ==
  /\ "error" \in DOMAIN slot
  /\ slot.error # NoneVal
  /\ IsInstance(slot.error, "CloudRuntimesException")
  /\ slot.error.code \in EightCodes

\* a slot that holds a result
HoldsResult(slot) ==
  CASE slot.t = "BulkStateItem" -> slot.error = NoneVal
    [] slot.t = "SecretResponse" -> DOMAIN slot.data.v # {}
    [] slot.t = "SendEmailResponse" -> slot.status = Str("sent")

\* C19: a bulk operation over n input items returns exactly n result slots in
\* input order, each holding a result or a per-item error tagged with an
\* error kind; an item's failure does not abort the call.
C19_BulkOneSlotPerItem ==
  bulk.op # "-" =>
    /\ bulk.outcome.k = "return"
    /\ DOMAIN SlotsOf(bulk) = DOMAIN bulk.items
    /\ \A i \in DOMAIN bulk.items :
         /\ HoldsResult(SlotsOf(bulk)[i]) \/ HoldsTaggedError(SlotsOf(bulk)[i])
         /\ SlotsOf(bulk)[i].t = "BulkStateItem" =>
              SlotsOf(bulk)[i].key = Str(bulk.items[i])

-----------------------------------------------------------------------------
(* Concurrency claims *)

C21_Step ==
  /\ (reads' # reads => (slots' = slots /\ lastBound' = lastBound))
  /\ sealed' =>
       /\ \A t \in Threads :
            reads'[t].pc = "done" =>
              reads'[t].outcome = Accessor(slots', reads'[t].target)
       /\ \A t, u \in Threads :
            ( /\ reads'[t].pc = "done"
              /\ reads'[u].pc = "done"
              /\ reads'[t].target = reads'[u].target )
              => reads'[t].outcome = reads'[u].outcome

\* C21: once binding is complete and no slot is written any more, under every
\* interleaving of the steps of accessor reads by several threads each read of
\* c returns the provider bound to c, or raises 'capability unbound' when c is
\* empty, all reads of c agree, and no step of a read changes a slot.
C21_ConcurrentReadsAgree == [][C21_Step]_vars

C21_Witness ==
  /\ sealed
  /\ reads["t1"].pc = "done"
  /\ reads["t1"].target = "state"
  /\ reads["t1"].outcome = Return(Provider("p1"))
  /\ reads["t2"].pc = "passed"
  /\ reads["t2"].target = "state"

-----------------------------------------------------------------------------
(* Recording provider claims *)

\* the positional argument list of the written call c with every parameter
\* filled in: the positional arguments, then the keyword arguments in
\* parameter order, None for each parameter that was not given
FullPositional(c) ==
  [ i \in 1..Len(MockedParams[c.op]) |->
      IF i <= Len(c.args) THEN c.args[i]
      ELSE IF MockedParams[c.op][i] \in DOMAIN c.kwargs
        THEN c.kwargs[MockedParams[c.op][i]]
      ELSE NoneVal ]

\* C22: a call that omits optional arguments, or passes them by keyword, is
\* captured by the recording provider as the full positional argument list
\* with None for each omitted optional argument and no keyword arguments.
C22_OmittedArgumentsRecordedAsNone ==
  res.form = "mock" =>
    res.recorded = <<Call(res.op, FullPositional(res.args), EmptyMap)>>

\* C23: a GetSecretRequest can be built from the fields store_name, key and
\* metadata (the names get_secret takes), and get_secret_with_request hands
\* the request value to the provider unchanged and returns the provider's
\* response unchanged.
C23_SecretRequestBuiltFromKey ==
  /\ ( /\ made.op = "init"
       /\ made.target = "GetSecretRequest"
       /\ {"store_name", "key"} \subseteq DOMAIN made.args
       /\ DOMAIN made.args \subseteq {"store_name", "key", "metadata"} )
       => /\ made.outcome.k = "return"
          /\ made.outcome.v.store_name = made.args.store_name
  /\ (res.form = "mock" /\ res.op = "get_secret_with_request")
       => /\ res.recorded = <<res.args>>
          /\ Len(res.args.args) = 1
          /\ res.args.args[1].t = "GetSecretRequest"
          /\ res.outcome = res.coro

-----------------------------------------------------------------------------
(* Abstract interface claims *)

\* C24: each of the 16 capability interfaces is abstract: instantiating it
\* directly is a TypeError, a subclass can be instantiated exactly when it
\* defines every declared suspending operation, and an instance of such a
\* subclass has every *_sync wrapper of its interface without defining it.
C24_InterfacesAbstract ==
  /\ inst.iface \in Interfaces =>
       /\ inst.direct =>
            (inst.outcome.k = "raise" /\ Exc(inst.outcome).cls = "TypeError")
       /\ inst.outcome.k = "return" <=> AsyncOps[inst.iface] \subseteq inst.defined
       /\ inst.outcome.k = "raise" => Exc(inst.outcome).cls = "TypeError"
       /\ inst.outcome.k = "return" =>
            \A w \in SyncOps[inst.iface] :
              /\ w \notin inst.defined
              /\ Resolve(inst.iface, inst.defined, w) =
                   Return([t |-> "method", name |-> w, owner |-> inst.iface])
  /\ (lookup.op = "-" /\ lookup.iface \in Interfaces /\
      lookup.name \in SyncOps[lookup.iface]) =>
       lookup.outcome =
         Return([t |-> "method", name |-> lookup.name, owner |-> lookup.iface])

C24_Witness ==
  /\ inst.iface = "StateRuntimes"
  /\ ~inst.direct
  /\ inst.outcome = Return(Provider("StateRuntimes"))
  /\ "get_state_sync" \notin inst.defined
  /\ lookup.iface = "StateRuntimes"
  /\ lookup.name = "get_state_sync"
  /\ lookup.outcome.k = "return"

-----------------------------------------------------------------------------
(* Accessor surface claims *)

C25_Step ==
  (obs'.op = "assign" /\ obs'.target \in Capabilities) =>
    /\ obs'.outcome.k = "raise"
    /\ Exc(obs'.outcome).cls = "AttributeError"
    /\ slots' = slots
    /\ \A c \in Capabilities : Accessor(slots', c) = Accessor(slots, c)

\* C25: the accessors are read-only: assigning to an accessor name
\* (client.state = p) is rejected with an error and changes no slot, whether
\* the slot is empty or bound and whether the value is a provider or None, so
\* no accessor's result changes.
C25_AccessorsReadOnly == [][C25_Step]_vars

C25_Witness ==
  /\ obs.op = "assign"
  /\ obs.target = "state"
  /\ obs.outcome.k = "raise"
  /\ slots["_state"] = Provider("p1")

\* C26: an accessor never returns None: in every interleaving of a read with
\* concurrent writes to the same slot (bind, rebind, reset to empty) the read
\* either returns a provider that was bound to the slot at some moment during
\* the read or raises 'capability unbound'.
C26_AccessorNeverReturnsNone ==
  \A t \in Threads :
    reads[t].pc = "done" =>
      \/ /\ reads[t].outcome.k = "raise"
         /\ Exc(reads[t].outcome).cls = "NotImplementedError"
      \/ /\ reads[t].outcome.k = "return"
         /\ reads[t].outcome.v # NoneVal
         /\ reads[t].outcome.v \in reads[t].during

-----------------------------------------------------------------------------
(* Execution context claims *)

\* a step that is a *_sync call
SyncStep == res'.form = "sync" /\ (res' # res \/ call_count' = call_count + 1)

C27_Step ==
  (SyncStep /\ res'.inLoop) =>
    /\ loopRunning
    /\ res'.outcome.k = "raise"
    /\ Exc(res'.outcome).cls = "RuntimeError"
    /\ res'.recorded = <<>>
    /\ res'.coro = NotRun
    /\ call_count' = call_count
    /\ loopRunning' = TRUE

\* C27: a *_sync call made from inside a running suspending context of the
\* same thread ends at once with RuntimeError (from asyncio.run), the
\* provider's suspending operation is never executed, and the enclosing
\* suspending context is still running afterwards.
C27_SyncInsideLoopRaises == [][C27_Step]_vars

C27_Witness ==
  /\ res.form = "sync"
  /\ res.op = "invoke_method_sync"
  /\ res.inLoop
  /\ res.outcome.k = "raise"
  /\ loopRunning
  /\ call_count = 1

C28_Step ==
  (SyncStep /\ ~res'.inLoop) =>
    /\ ~loopRunning
    /\ loopRunning' = FALSE
    /\ Len(res'.recorded) = 1
    /\ res'.coro = programmed
    /\ res'.outcome = programmed
    /\ call_count' = call_count + 1

\* C28: a *_sync call made outside a suspending context runs on an execution
\* context of its own that is gone when the call returns or raises: after
\* any sequence of such calls no execution context is running in the thread,
\* and each later call starts and completes as its own suspending form ends,
\* whatever the earlier calls returned or raised.
C28_SyncLeavesNoLoopRunning == [][C28_Step]_vars

C28_Witness ==
  /\ res.form = "sync"
  /\ res.op = "save_configuration_sync"
  /\ ~res.inLoop
  /\ call_count = 2
  /\ res.outcome = Raise(SubclassException("ConflictException", "etag mismatch", NoneVal))
  /\ ~loopRunning

-----------------------------------------------------------------------------
(* Constructor and context manager claims *)

\* C29: the constructor applies a default only when the argument is omitted:
\* every endpoint or timeout that is supplied, the empty string and a timeout
\* of 0 included, is stored unchanged on the client.
C29_ExplicitArgumentsStored ==
  /\ ctorArgs.endpoint # NoneVal => endpoint = ctorArgs.endpoint
  /\ ctorArgs.timeout # NoneVal => timeout = ctorArgs.timeout
  /\ ctorArgs.endpoint = NoneVal => endpoint = DefaultEndpoint
  /\ ctorArgs.timeout = NoneVal => timeout = DefaultTimeout

\* C30: `async with client as c` binds c to the same client object, and on
\* exit close() is called exactly once, both when the body completes and
\* when it raises; an exception raised in the body is not suppressed: the
\* statement ends with that same exception, after close() has run.
C30_ContextManagerClosesOnce ==
  /\ cm.pc = "in" => (cm.bound = Self /\ cm.closes = 0)
  /\ (cm.pc = "out" /\ cm.body # NotRun) =>
       /\ cm.bound = Self
       /\ cm.closes = 1
       /\ closed
       /\ cm.body.k = "raise" => cm.outcome = cm.body
       /\ cm.body.k = "return" => cm.outcome = Return(NoneVal)

C30_Witness ==
  /\ cm.pc = "out"
  /\ cm.body = Raise(BuiltinException("RuntimeError", "body failed"))
  /\ cm.outcome = cm.body
  /\ cm.closes = 1
  /\ closed
  /\ slots["_state"] = Provider("p1")

====
